---- MODULE Spec2Model ----
(***************************************************************************)
(* Verification model of the RabbitMQ / Zabbix queue monitor.              *)
(*                                                                         *)
(*   Part 1  RabbitMQClient (app/core/rabbitmq.py): round-robin node       *)
(*           selection and the failover request loop.  Spec, FairSpec.     *)
(***************************************************************************)
EXTENDS Integers, Sequences, FiniteSets, TLC

\* ------------------------------------------------------------------ bounds
MaxNodes == 3

\* ----------------------------------------------------------- generic helpers
None == "None"

Range(s) == {s[i] : i \in 1..Len(s)}

IsPrefix(s, t) == /\ Len(s) <= Len(t)
                  /\ \A i \in 1..Len(s) : s[i] = t[i]

\* ======================================================================
\* Part 1: RabbitMQClient
\* ======================================================================

\* Hostnames a cluster configuration can use; "x" is a hostname that no
\* cluster lists (a caller can still pass it as the preferred node).
Hostnames == {"a", "b", "c"}
UnknownHost == "x"

\* cluster_config['nodes'] -> self.nodes: a non-empty list of hostnames.
\* Nothing in __init__ rejects a hostname that occurs twice.
NodeLists == UNION {[1..n -> Hostnames] : n \in 1..MaxNodes}

VARIABLES
  nodes,               \* self.nodes
  current_node_index,  \* self._current_node_index
  pc,                  \* position of the running _make_request call
  node,                \* the preferred-node argument (None when absent)
  tried_nodes,         \* local set tried_nodes
  errors,              \* local list errors: one record per appended line
  http,                \* session.request calls of this call, in order
  attempted,           \* nodes whose try body ran in this call, in order
  result,              \* node whose decoded response was returned
  cursor0,             \* _current_node_index when the call started
  selLog,              \* the last Len(nodes) results of _get_next_node
  selections,          \* _get_next_node calls of this call, modulo Len(nodes)
  \* --- drift rule (Part 2)
  previous_value,        \* Optional[int]
  current_value,
  threshold_percentage,
  warning,               \* the rule's verdict
  rule_pc,               \* "input" before the rule ran, "done" after
  \* --- QueueMonitor (Part 3)
  queues,                \* config['monitoring']['queues']
  threshold,             \* config.get_threshold()
  zabbix_items,          \* the sink: (host, key) -> item
  sent_alerts,           \* self.sent_alerts
  mpc,                   \* position inside run / process_queue_metrics
  qi,                    \* index of the watch-list entry being handled
  count,                 \* the count read by _check_queue (Optional[int])
  prev_count,            \* local prev_count (Optional[int])
  steps,                 \* steps taken so far for entry qi in this cycle
  emitted,               \* alerts handed to the EmailSender for entry qi
  was_latched,           \* alert key in sent_alerts when evaluation began
  sink_before,           \* sink value of the item when entry qi was taken up
  in_run,                \* per entry: the last evaluated cycle was an increase
  run_dispatched,        \* per entry: drift alerts in the current run (max 2)
  latch_due,             \* keys dispatched and not cleared by current <= previous
  undelivered,           \* entries whose drift alert was not delivered, until current <= previous
  resent,                \* the last evaluation dispatched for an entry in undelivered
  \* --- ZabbixClient.send_value (Part 4)
  tls_connect,           \* config 'tls_connect'
  psk_key_given,         \* config 'psk_key' is a non-empty literal
  psk_file_given,        \* config 'tls_psk_file' is non-empty
  spc,                   \* position inside send_value
  temp_files,            \* local list temp_files of the external-tool send
  disk_files,            \* temporary files of this call present on disk
  deliveries,            \* delivery methods invoked by this call, in order
  wire,                  \* transport events of this call, in order
  reply,                 \* what the transport answered
  send_result,           \* value returned by send_value
  \* --- sender packet (Part 5)
  data_point,            \* host, key and value handed to _send_with_socket
  packet,                \* the bytes put together for the data point
  built_by,              \* which client built the packet
  \* --- control plane (Part 6)
  cached_client,         \* endpoints' global _zabbix_client (None or a client)
  apc,                   \* position of the control-plane access
  api_op,                \* the control-plane call of this access
  did_login,             \* this access performed a login
  was_cached,            \* a client was cached when this access began
  login_ok,              \* the login of this access succeeded
  api_requests,          \* API requests this access issued after the login
  api_outcome,           \* how the access ended
  item,                  \* the server's item: exists, lastvalue, prevvalue
  history,               \* the server's history rows of the item, oldest first
  last_two,              \* the pair returned by get_last_two_values
  \* --- RabbitMQClient methods over _make_request (Part 7)
  cpc,                   \* position of the running client method
  method,                \* which method of the client is running
  arg_vhost,             \* its vhost argument ("" and None are both <<>>)
  arg_queue,             \* its queue argument
  path,                  \* the API path it handed to _make_request
  response,              \* the decoded body _make_request handed back
  ret,                   \* what the method returned to its caller
  \* --- the client registry of the RabbitMQ endpoints (Part 8)
  clusters,              \* config rabbitmq.clusters: id and node hostnames of each
  registry,              \* endpoints' global _clients: cluster id -> client
  constructed,           \* cluster ids of the RabbitMQClient objects built so far
  rpc,                   \* position of the registry lookup
  reg_key,               \* what the lookup asked for: a cluster id or a node hostname
  reg_outcome,           \* the client handed back, or the error raised
  reg_made,              \* clients built by this lookup
  handed,                \* per cluster id, the clients ever handed back
  \* --- collection cycles of the Zabbix endpoints (Part 9)
  cyc,                   \* position of the collection cycle
  cycle_kind,            \* which handler runs: the watch-list cycle or the queue-size cycle
  cycle_input,           \* the queues the cycle was given, in order
  cyc_i,                 \* index of the queue the loop is at
  cycle_reads,           \* queues whose count the cycle has read
  cycle_sends,           \* delivery outcome per queue handed to send_value
  cycle_results,         \* the result entries of the response
  cycle_response,        \* status code and success flag of the response
  script_result,         \* what update_metrics returned to the cron script
  \* --- MonitoringService (Part 10)
  svc_clusters,          \* config rabbitmq.clusters of the MonitoringService
  svc_queues,            \* config monitoring.queues (the watch-list)
  svc,                   \* position of the running service call
  svc_op,                \* the service call: run_monitoring_cycle or send_all_metrics_to_zabbix
  svc_i,                 \* index of the watch-list entry or cluster the loop is at
  lookups,               \* per watch-list entry handled, how it ended
  listings,              \* per cluster handled, what get_all_queues answered
  metrics,               \* the list the collect method has built
  batches,               \* the lists handed to send_values_to_zabbix, in order
  tool_runs,             \* the payload files the external tool was run with, in order
  alerts,                \* queue infos handed to send_alert
  sink_result,           \* what send_values_to_zabbix returned
  svc_result,            \* what the service call returned
  \* --- composite queue keys (Part 11)
  key_pc,                \* position: names chosen, key listed, key parsed
  key_cluster,           \* cluster.get('id') of the listing cluster
  key_vhost,             \* queue object's vhost
  key_queue,             \* queue object's name
  queue_key,             \* the composite key of the messages-ready listing
  parsed                 \* what update_queue_sizes takes the key apart into

brokerVars == <<nodes, current_node_index, pc, node, tried_nodes, errors, http,
                attempted, result, cursor0, selLog,
                 selections>>

ruleVars == <<previous_value, current_value, threshold_percentage, warning,
              rule_pc>>

monitorVars == <<queues, threshold, zabbix_items, sent_alerts, mpc, qi, count,
                 prev_count, steps, emitted, was_latched, sink_before, in_run,
                 run_dispatched, latch_due, undelivered, resent>>

senderVars == <<tls_connect, psk_key_given, psk_file_given, spc, temp_files,
                disk_files, deliveries, wire, reply, send_result>>

packetVars == <<data_point, packet, built_by>>

apiVars == <<cached_client, apc, api_op, did_login, was_cached, login_ok,
             api_requests, api_outcome, item, history, last_two>>

sinkVars == <<senderVars, packetVars, apiVars>>

clientVars == <<cpc, method, arg_vhost, arg_queue, path, response, ret>>

registryVars == <<clusters, registry, constructed, rpc, reg_key, reg_outcome, reg_made, handed>>

cycleVars == <<cyc, cycle_kind, cycle_input, cyc_i, cycle_reads, cycle_sends, cycle_results, cycle_response, script_result>>

serviceVars == <<svc_clusters, svc_queues, svc, svc_op, svc_i, lookups, listings, metrics, batches, tool_runs, alerts, sink_result, svc_result>>

keyVars == <<key_pc, key_cluster, key_vhost, key_queue, queue_key, parsed>>

lateVars == <<clientVars, registryVars, cycleVars, serviceVars, keyVars>>

\* What the actions of one part leave unchanged: all other parts.
exceptBroker == <<ruleVars, monitorVars, sinkVars,
  lateVars>>
exceptRule == <<brokerVars, monitorVars, sinkVars,
  lateVars>>
exceptMonitor == <<brokerVars, ruleVars, sinkVars,
  lateVars>>
exceptSender == <<brokerVars, ruleVars, monitorVars, packetVars, apiVars,
  lateVars>>
exceptPacket == <<brokerVars, ruleVars, monitorVars, senderVars, apiVars,
  lateVars>>
exceptApi == <<brokerVars, ruleVars, monitorVars, senderVars, packetVars,
  lateVars>>
earlyVars == <<ruleVars, monitorVars, sinkVars>>

vars == <<brokerVars, ruleVars, monitorVars, sinkVars, lateVars>>

\* Optional[int]: <<>> is None, <<v>> is the value v.
NoValue == <<>>
Some(v) == <<v>>
IsNone(o) == o = <<>>
ValueOf(o) == o[1]

\* The parts of the state a specification does not exercise stay here.
RuleUnused ==
  /\ previous_value = NoValue
  /\ current_value = 0
  /\ threshold_percentage = 0
  /\ warning = FALSE
  /\ rule_pc = "unused"

SenderUnused ==
  /\ tls_connect = "unencrypted"
  /\ psk_key_given = FALSE
  /\ psk_file_given = FALSE
  /\ spc = "unused"
  /\ temp_files = <<>>
  /\ disk_files = {}
  /\ deliveries = <<>>
  /\ wire = <<>>
  /\ reply = <<>>
  /\ send_result = "None"

PacketUnused ==
  /\ data_point = <<>>
  /\ packet = <<>>
  /\ built_by = "unused"

ApiUnused ==
  /\ cached_client = "None"
  /\ apc = "unused"
  /\ api_op = "None"
  /\ did_login = FALSE
  /\ was_cached = FALSE
  /\ login_ok = FALSE
  /\ api_requests = <<>>
  /\ api_outcome = "None"
  /\ item = <<>>
  /\ history = <<>>
  /\ last_two = <<>>

SinkUnused == SenderUnused /\ PacketUnused /\ ApiUnused

ClientUnused ==
  /\ cpc = "unused"
  /\ method = "None"
  /\ arg_vhost = <<>>
  /\ arg_queue = <<>>
  /\ path = <<>>
  /\ response = <<>>
  /\ ret = <<>>

RegistryUnused ==
  /\ clusters = <<>>
  /\ registry = <<>>
  /\ constructed = <<>>
  /\ rpc = "unused"
  /\ reg_key = <<>>
  /\ reg_outcome = <<>>
  /\ reg_made = 0
  /\ handed = <<>>

CycleUnused ==
  /\ cyc = "unused"
  /\ cycle_kind = "None"
  /\ cycle_input = <<>>
  /\ cyc_i = 0
  /\ cycle_reads = <<>>
  /\ cycle_sends = <<>>
  /\ cycle_results = <<>>
  /\ cycle_response = <<>>
  /\ script_result = "None"

ServiceUnused ==
  /\ svc_clusters = <<>>
  /\ svc_queues = <<>>
  /\ svc = "unused"
  /\ svc_op = "None"
  /\ svc_i = 0
  /\ lookups = <<>>
  /\ listings = <<>>
  /\ metrics = <<>>
  /\ batches = <<>>
  /\ tool_runs = <<>>
  /\ alerts = <<>>
  /\ sink_result = <<>>
  /\ svc_result = <<>>

KeyUnused ==
  /\ key_pc = "unused"
  /\ key_cluster = <<>>
  /\ key_vhost = <<>>
  /\ key_queue = <<>>
  /\ queue_key = <<>>
  /\ parsed = <<>>

LateUnused == ClientUnused /\ RegistryUnused /\ CycleUnused /\ ServiceUnused /\ KeyUnused

MonitorUnused ==
  /\ queues = <<>>
  /\ threshold = 0
  /\ zabbix_items = <<>>
  /\ sent_alerts = {}
  /\ mpc = "unused"
  /\ qi = 0
  /\ count = NoValue
  /\ prev_count = NoValue
  /\ steps = <<>>
  /\ emitted = <<>>
  /\ was_latched = FALSE
  /\ sink_before = NoValue
  /\ in_run = <<>>
  /\ run_dispatched = <<>>
  /\ latch_due = {}
  /\ undelivered = {}
  /\ resent = FALSE

EarlyUnused == RuleUnused /\ MonitorUnused /\ SinkUnused

\* A cursor that advances by two positions.
GetNextNodeSkipping(ns, idx) ==
  [node |-> ns[idx + 1], index |-> (idx + 2) % Len(ns)]

\* _get_next_node: the node under the cursor, and the advanced cursor.
GetNextNode(ns, idx) ==
  [node |-> ns[idx + 1], index |-> (idx + 1) % Len(ns)]

\* _get_node_config: TRUE when a node entry has this hostname
\* (otherwise the method raises ValueError).
HasNodeConfig(ns, hostname) == \E i \in 1..Len(ns) : ns[i] = hostname

\* Guard of the failover loop: while len(tried_nodes) < len(self.nodes).
LoopGuard(tried, ns) == Cardinality(tried) < Len(ns)

\* A loop that never skips a node.
AlreadyTriedIgnored(n, tried) == FALSE

\* if current_node in tried_nodes: continue
AlreadyTried(n, tried) == n \in tried

\* History of selections: keep the last Len(ns) of them.
LogSelection(log, ns, idx, n) ==
  LET full == Append(log, [cursor |-> idx, node |-> n])
  IN  IF Len(full) > Len(ns) THEN Tail(full) ELSE full

BrokerInit ==
  /\ nodes \in NodeLists
  /\ current_node_index = 0
  /\ pc = "idle"
  /\ node = None
  /\ tried_nodes = {}
  /\ errors = <<>>
  /\ http = <<>>
  /\ attempted = <<>>
  /\ result = None
  /\ cursor0 = 0
  /\ selLog = <<>>
  /\ selections = 0

BrokerUnused ==
  /\ nodes = <<"a">>
  /\ current_node_index = 0
  /\ pc = "unused"
  /\ node = None
  /\ tried_nodes = {}
  /\ errors = <<>>
  /\ http = <<>>
  /\ attempted = <<>>
  /\ result = None
  /\ cursor0 = 0
  /\ selLog = <<>>
  /\ selections = 0

Init == BrokerInit /\ RuleUnused /\ MonitorUnused /\ SinkUnused /\ LateUnused

\* _make_request(method, path, node): entry; errors = [], tried_nodes = set()
MakeRequest(n) ==
  /\ pc \in {"idle", "returned", "raised"}
  /\ node' = n
  /\ tried_nodes' = {}
  /\ errors' = <<>>
  /\ http' = <<>>
  /\ attempted' = <<>>
  /\ result' = None
  /\ cursor0' = current_node_index
  /\ pc' = IF n # None THEN "preferred" ELSE "loop"
  /\ selections' = 0
  /\ UNCHANGED <<nodes, current_node_index, selLog>>
  /\ UNCHANGED exceptBroker

Call == \E n \in Hostnames \cup {UnknownHost, None} : MakeRequest(n)

\* if node: _get_node_config(node) raises ValueError (no HTTP request made)
PreferredUnknown ==
  /\ pc = "preferred"
  /\ ~HasNodeConfig(nodes, node)
  /\ errors' = Append(errors, [node |-> node, specified |-> TRUE])
  /\ tried_nodes' = tried_nodes \cup {node}
  /\ attempted' = Append(attempted, node)
  /\ pc' = "loop"
  /\ UNCHANGED <<nodes, current_node_index, node, http, result, cursor0, selLog,
                 selections>>
  /\ UNCHANGED exceptBroker

\* A preferred-node success that also moves the cursor.
PreferredSucceedsAdvancing ==
  /\ pc = "preferred"
  /\ HasNodeConfig(nodes, node)
  /\ http' = Append(http, [node |-> node, ok |-> TRUE])
  /\ attempted' = Append(attempted, node)
  /\ result' = node
  /\ pc' = "returned"
  /\ current_node_index' = (current_node_index + 1) % Len(nodes)
  /\ UNCHANGED <<nodes, node, tried_nodes, errors, cursor0, selLog, selections>>
  /\ UNCHANGED exceptBroker

\* if node: the request to the preferred node answers 2xx with a JSON body
PreferredSucceeds ==
  /\ pc = "preferred"
  /\ HasNodeConfig(nodes, node)
  /\ http' = Append(http, [node |-> node, ok |-> TRUE])
  /\ attempted' = Append(attempted, node)
  /\ result' = node
  /\ pc' = "returned"
  /\ UNCHANGED <<nodes, current_node_index, node, tried_nodes, errors, cursor0, selLog,
                 selections>>
  /\ UNCHANGED exceptBroker

\* if node: the request raises (connection error, non-2xx, bad JSON)
PreferredFails ==
  /\ pc = "preferred"
  /\ HasNodeConfig(nodes, node)
  /\ http' = Append(http, [node |-> node, ok |-> FALSE])
  /\ attempted' = Append(attempted, node)
  /\ errors' = Append(errors, [node |-> node, specified |-> TRUE])
  /\ tried_nodes' = tried_nodes \cup {node}
  /\ pc' = "loop"
  /\ UNCHANGED <<nodes, current_node_index, node, result, cursor0, selLog,
                 selections>>
  /\ UNCHANGED exceptBroker

\* One iteration of the while loop begins with _get_next_node().
Selected == GetNextNode(nodes, current_node_index)

Select ==
  /\ current_node_index' = Selected.index
  /\ selLog' = LogSelection(selLog, nodes, current_node_index, Selected.node)
  /\ selections' = (selections + 1) % Len(nodes)

\* while ...: current_node in tried_nodes -> continue
LoopSkip ==
  /\ pc = "loop"
  /\ LoopGuard(tried_nodes, nodes)
  /\ Select
  /\ AlreadyTried(Selected.node, tried_nodes)
  /\ UNCHANGED <<nodes, pc, node, tried_nodes, errors, http, attempted, result, cursor0>>
  /\ UNCHANGED exceptBroker

\* A success that does not leave the loop.
LoopSucceedsKeepsGoing ==
  /\ pc = "loop"
  /\ LoopGuard(tried_nodes, nodes)
  /\ Select
  /\ ~AlreadyTried(Selected.node, tried_nodes)
  /\ http' = Append(http, [node |-> Selected.node, ok |-> TRUE])
  /\ attempted' = Append(attempted, Selected.node)
  /\ result' = Selected.node
  /\ tried_nodes' = tried_nodes \cup {Selected.node}
  /\ UNCHANGED <<nodes, pc, node, errors, cursor0>>
  /\ UNCHANGED exceptBroker

\* while ...: the request to current_node answers 2xx: return response.json()
LoopSucceeds ==
  /\ pc = "loop"
  /\ LoopGuard(tried_nodes, nodes)
  /\ Select
  /\ ~AlreadyTried(Selected.node, tried_nodes)
  /\ http' = Append(http, [node |-> Selected.node, ok |-> TRUE])
  /\ attempted' = Append(attempted, Selected.node)
  /\ result' = Selected.node
  /\ pc' = "returned"
  /\ UNCHANGED <<nodes, node, tried_nodes, errors, cursor0>>
  /\ UNCHANGED exceptBroker

\* while ...: the request to current_node raises: record it and go on
LoopFails ==
  /\ pc = "loop"
  /\ LoopGuard(tried_nodes, nodes)
  /\ Select
  /\ ~AlreadyTried(Selected.node, tried_nodes)
  /\ http' = Append(http, [node |-> Selected.node, ok |-> FALSE])
  /\ attempted' = Append(attempted, Selected.node)
  /\ errors' = Append(errors, [node |-> Selected.node, specified |-> FALSE])
  /\ tried_nodes' = tried_nodes \cup {Selected.node}
  /\ UNCHANGED <<nodes, pc, node, result, cursor0>>
  /\ UNCHANGED exceptBroker

\* loop exit: raise RequestException("All RabbitMQ nodes are unavailable:...")
RaiseAllUnavailable ==
  /\ pc = "loop"
  /\ ~LoopGuard(tried_nodes, nodes)
  /\ pc' = "raised"
  /\ UNCHANGED <<nodes, current_node_index, node, tried_nodes, errors, http,
                 attempted, result, cursor0, selLog,
                 selections>>
  /\ UNCHANGED exceptBroker

RequestStep ==
  \/ PreferredUnknown
  \/ PreferredSucceeds
  \/ PreferredFails
  \/ LoopSkip
  \/ LoopSucceeds
  \/ LoopFails
  \/ RaiseAllUnavailable

Next ==
  \/ Call
  \/ PreferredUnknown
  \/ PreferredSucceeds
  \/ PreferredFails
  \/ LoopSkip
  \/ LoopSucceeds
  \/ LoopFails
  \/ RaiseAllUnavailable

Spec == Init /\ [][Next]_vars

\* The interpreter keeps executing a call that has started: every step of a
\* running _make_request is eventually taken.
FairSpec == Init /\ [][Next]_vars /\ WF_vars(RequestStep)

\* ----------------------------------------------------------------------
\* Properties of RabbitMQClient._make_request / _get_next_node
\* ----------------------------------------------------------------------
InCall == pc \in {"preferred", "loop"}
CallDone == pc \in {"returned", "raised"}
HttpNodes == {http[i].node : i \in 1..Len(http)}
ErrorNodes == {errors[i].node : i \in 1..Len(errors)}

\* C4: the all-nodes-unavailable error is raised only after every node of
\* the cluster has been attempted at least once in that call, whatever the
\* preferred-node argument is (absent, in the cluster, not in the cluster).
C4_RaisedOnlyAfterEveryNodeTried ==
  pc = "raised" => \A i \in 1..Len(nodes) : nodes[i] \in HttpNodes

\* C5: when every attempt fails, the single aggregated error carries exactly
\* N failure reasons, one per line, each naming a distinct node of the
\* cluster.
C5_AggregatedErrorNamesNNodes ==
  pc = "raised" =>
    /\ Len(errors) = Len(nodes)
    /\ Cardinality(ErrorNodes) = Len(errors)
    /\ ErrorNodes \subseteq Range(nodes)

\* C6: every request call terminates after at most one pass over the
\* cluster: at most N HTTP attempts, no node attempted twice, and the call
\* returns or raises, for every node list (also one that repeats a hostname).
C6_TerminatesWithinOnePass ==
  /\ [](Len(http) <= Len(nodes))
  /\ [](Cardinality(HttpNodes) = Len(http))
  /\ (InCall ~> CallDone)

\* C7: N consecutive selections return each of the N node entries exactly
\* once, in configuration order starting at the cursor: selection j of a
\* window that started at cursor c reads position (c + j - 1) mod N.
C7_RoundRobinCyclesAllNodes ==
  \A j \in 1..Len(selLog) :
    /\ selLog[j].cursor = (selLog[1].cursor + j - 1) % Len(nodes)
    /\ selLog[j].node = nodes[selLog[j].cursor + 1]

\* C7 witness: a full window of N >= 2 selections that wrapped around the
\* end of the node list.
C7_Witness ==
  /\ Len(nodes) >= 2
  /\ Len(selLog) = Len(nodes)
  /\ selLog[1].cursor # 0

\* C8: a call returns the response of the first node whose attempt
\* succeeds and makes no further attempt after a success: only the last
\* HTTP attempt of a call can be a success, the call has returned exactly
\* when it is, and the returned response is that node's.
C8_ReturnsFirstSuccess ==
  /\ \A i \in 1..(Len(http) - 1) : ~http[i].ok
  /\ (pc = "returned") <=> (Len(http) > 0 /\ http[Len(http)].ok)
  /\ pc = "returned" => result = http[Len(http)].node

\* C8 witness: a call that returned after two failed attempts.
C8_Witness ==
  /\ pc = "returned"
  /\ Len(http) = 3
  /\ result = http[3].node

\* Round-robin order over one pass starting at cursor c, leaving out the
\* hostnames in seen and later repeats of a hostname.
RECURSIVE RoundRobinPass(_, _, _, _)
RoundRobinPass(ns, c, k, seen) ==
  IF k = Len(ns) THEN <<>>
  ELSE LET h == ns[((c + k) % Len(ns)) + 1]
       IN  IF h \in seen THEN RoundRobinPass(ns, c, k + 1, seen)
           ELSE <<h>> \o RoundRobinPass(ns, c, k + 1, seen \cup {h})

\* C9: a preferred node is the first node attempted; after its failure the
\* other nodes are attempted in round-robin order from the cluster's cursor,
\* and the preferred node is not attempted again when the cursor reaches it.
C9_PreferredFirstThenRoundRobin ==
  (node # None /\ attempted # <<>>) =>
    /\ attempted[1] = node
    /\ HasNodeConfig(nodes, node) => (http # <<>> /\ http[1].node = node)
    /\ node \notin Range(Tail(attempted))
    /\ IsPrefix(Tail(attempted), RoundRobinPass(nodes, cursor0, 0, {node}))

\* C9 witness: the preferred node failed, the cursor pointed at it, it was
\* skipped and the two other nodes were attempted.
C9_Witness ==
  /\ node # None
  /\ Len(nodes) = 3
  /\ nodes[cursor0 + 1] = node
  /\ Len(attempted) = 3
  /\ pc = "raised"

\* ======================================================================
\* Part 2: the drift rule of get_queue_metrics / update_queue_metrics
\* (app/api/endpoints/zabbix.py).  The percentage is computed in Python
\* floats: int / int is the correctly rounded binary64 quotient, float * int
\* the correctly rounded product.  A float is modelled as its exponent and
\* its 53 significand bits, most significant first:
\*     value = SUM m[i] * 2^(e + 1 - i)
\* ======================================================================

\* Significand width of a Python float (IEEE 754 binary64).
MantissaBits == 53

RECURSIVE Pow2(_)
Pow2(k) == IF k = 0 THEN 1 ELSE 2 * Pow2(k - 1)

\* Binary digits of a natural number, most significant first (0 -> <<>>).
RECURSIVE Binary(_)
Binary(n) == IF n = 0 THEN <<>> ELSE Append(Binary(n \div 2), n % 2)

\* Value of a bit string.
RECURSIVE BitsValue(_)
BitsValue(bits) ==
  IF bits = <<>> THEN 0
  ELSE 2 * BitsValue(SubSeq(bits, 1, Len(bits) - 1)) + bits[Len(bits)]

\* Largest k with b * 2^k <= a (for a >= b > 0).
RECURSIVE ShiftDown(_, _)
ShiftDown(a, b) == IF 2 * b <= a THEN 1 + ShiftDown(a, 2 * b) ELSE 0

\* Smallest k with a * 2^k >= b (for 0 < a).
RECURSIVE ShiftUp(_, _)
ShiftUp(a, b) == IF a >= b THEN 0 ELSE 1 + ShiftUp(2 * a, b)

\* Arithmetic on bit strings goes in limbs of LimbBits bits.
LimbBits == 8
LimbBase == Pow2(LimbBits)

\* The w-bit binary representation of v, most significant bit first.
BitsOf(v, w) == [i \in 1..w |-> (v \div Pow2(w - i)) % 2]

\* The bit string of a sequence of limb values.
LimbsToBits(limbs) ==
  [i \in 1..(LimbBits * Len(limbs)) |->
     BitsOf(limbs[((i - 1) \div LimbBits) + 1], LimbBits)[((i - 1) % LimbBits) + 1]]

\* A bit string without its leading zeros.
StripLeadingZeros(bits) ==
  LET ones == {i \in 1..Len(bits) : bits[i] = 1}
  IN  IF ones = {} THEN <<>>
      ELSE SubSeq(bits, CHOOSE i \in ones : \A j \in ones : i <= j, Len(bits))

\* Long division: the next k limbs of the quotient of r / d (r < d) and
\* whether a remainder is left after them.
RECURSIVE LongDiv(_, _, _)
LongDiv(r, d, k) ==
  IF k = 0 THEN [limbs |-> <<>>, inexact |-> (r # 0)]
  ELSE LET rest == LongDiv((r * LimbBase) % d, d, k - 1)
       IN  [limbs |-> <<(r * LimbBase) \div d>> \o rest.limbs,
            inexact |-> rest.inexact]

\* Add one unit in the last place to a bit string: the trailing ones become
\* zeros and the last zero becomes one; carry = 1 when there is no zero.
Increment(bits) ==
  LET zeros == {i \in 1..Len(bits) : bits[i] = 0}
      last  == IF zeros = {} THEN 0
               ELSE CHOOSE i \in zeros : \A j \in zeros : j <= i
  IN  [bits  |-> [i \in 1..Len(bits) |->
                    IF i < last THEN bits[i] ELSE IF i = last THEN 1 ELSE 0],
       carry |-> IF last = 0 THEN 1 ELSE 0]

\* Round a bit string (leading bit 1, leading exponent e) to 53 bits,
\* to nearest, ties to even; sticky tells that non-zero bits lie beyond it.
RoundToNearestEven(e, bits, sticky) ==
  LET n     == Len(bits)
      full  == IF n >= MantissaBits THEN bits
               ELSE bits \o [i \in 1..(MantissaBits - n) |-> 0]
      m     == SubSeq(full, 1, MantissaBits)
      guard == IF n > MantissaBits THEN bits[MantissaBits + 1] ELSE 0
      more  == sticky \/ \E i \in (MantissaBits + 2)..n : bits[i] = 1
      up    == guard = 1 /\ (more \/ m[MantissaBits] = 1)
      inc   == Increment(m)
  IN  IF ~up THEN [e |-> e, m |-> m]
      ELSE IF inc.carry = 1
           THEN [e |-> e + 1, m |-> <<1>> \o SubSeq(inc.bits, 1, MantissaBits - 1)]
           ELSE [e |-> e, m |-> inc.bits]

\* int / int (true division), a > 0 and b > 0: scale to d <= r < 2d, so
\* the quotient is 1.xxx, and take 56 bits after the leading one.
TrueDiv(a, b) ==
  LET k == IF a >= b THEN ShiftDown(a, b) ELSE ShiftUp(a, b)
      e == IF a >= b THEN k ELSE 0 - k
      r == IF a >= b THEN a ELSE a * Pow2(k)
      d == IF a >= b THEN b * Pow2(k) ELSE b
      q == LongDiv(r - d, d, 7)
  IN  RoundToNearestEven(e, <<1>> \o LimbsToBits(q.limbs), q.inexact)

\* Exact product of a sequence of limbs with a small positive integer, low
\* limb first: limbs j..1 still to do, the carry runs upward and ends up as
\* the first limb of the result.
RECURSIVE MulLimbs(_, _, _, _)
MulLimbs(limbs, j, carry, k) ==
  IF j = 0 THEN <<carry>>
  ELSE LET t == limbs[j] * k + carry
       IN  Append(MulLimbs(limbs, j - 1, t \div LimbBase, k), t % LimbBase)

\* The 53 significand bits as 7 limbs (3 leading zero bits).
SignificandLimbs(m) ==
  LET padded == <<0, 0, 0>> \o m
  IN  [j \in 1..7 |->
         BitsValue(SubSeq(padded, LimbBits * (j - 1) + 1, LimbBits * j))]

\* float * int, k > 0: the exact product, rounded.
FloatMulInt(f, k) ==
  LET prod == StripLeadingZeros(
                LimbsToBits(MulLimbs(SignificandLimbs(f.m), 7, 0, k)))
  IN  RoundToNearestEven(f.e + (Len(prod) - MantissaBits), prod, FALSE)

\* float > int, for a positive float and t >= 0.
FloatGreaterInt(f, t) ==
  LET whole == IF f.e < 0 THEN 0 ELSE BitsValue(SubSeq(f.m, 1, f.e + 1))
      frac  == \E i \in 1..MantissaBits : i > f.e + 1 /\ f.m[i] = 1
  IN  whole > t \/ (whole = t /\ frac)

\* increase_percentage > threshold_percentage, where increase_percentage =
\* (increase / previous_value * 100) if previous_value > 0 else 100
IncreaseExceeds(increase, previous, limit) ==
  IF previous > 0
  THEN FloatGreaterInt(FloatMulInt(TrueDiv(increase, previous), 100), limit)
  ELSE 100 > limit

\* if previous_value is not None and current_value > previous_value: ...
\*   if increase_percentage > threshold_percentage: warning = True
DriftWarning(previous, current, limit) ==
  /\ ~IsNone(previous)
  /\ current > ValueOf(previous)
  /\ IncreaseExceeds(current - ValueOf(previous), ValueOf(previous), limit)

\* Inputs of the rule.
MaxValue == 150
Thresholds == {7, 10}

RuleInit ==
  /\ previous_value \in {NoValue} \cup {Some(v) : v \in 0..MaxValue}
  /\ current_value \in 0..MaxValue
  /\ threshold_percentage \in Thresholds
  /\ warning = FALSE
  /\ rule_pc = "input"

\* get_queue_metrics, lines 386-395: warning = False; the rule sets it.
EvaluateRule ==
  /\ rule_pc = "input"
  /\ warning' = DriftWarning(previous_value, current_value, threshold_percentage)
  /\ rule_pc' = "done"
  /\ UNCHANGED <<previous_value, current_value, threshold_percentage>>
  /\ UNCHANGED exceptRule

RuleNext == EvaluateRule

RuleSpecInit ==
  BrokerUnused /\ MonitorUnused /\ SinkUnused /\ LateUnused /\ RuleInit

RuleSpec == RuleSpecInit /\ [][RuleNext]_vars

\* C2: a drift warning is raised exactly when a previous value exists, the
\* current value is greater, and (c - p) / p * 100 (100 when p = 0) is
\* strictly greater than the threshold percentage.
C2_DriftWarningIffPercentageExceeds ==
  rule_pc = "done" =>
    (warning <=>
       /\ ~IsNone(previous_value)
       /\ current_value > ValueOf(previous_value)
       /\ IF ValueOf(previous_value) > 0
          THEN (current_value - ValueOf(previous_value)) * 100
                 > threshold_percentage * ValueOf(previous_value)
          ELSE 100 > threshold_percentage)

\* ======================================================================
\* Part 3: QueueMonitor (main.py) with Config (config.py), get_alert_key
\* (utils.py) and the Zabbix item store behind ZabbixClient.
\* One QueueMonitor object; run() is called once per collection cycle.
\* The count returned by _check_queue is an input: the broker's answer.
\* ======================================================================
MaxCount == 2

\* Nodes that have a RabbitMQ client (listed by some configured cluster).
ClientNodes == {"n1", "n2"}
\* cluster_node values of watch-list entries; "n9" is in no cluster.
WatchNodes == ClientNodes \cup {"n9"}
\* zabbix_host values of watch-list entries.
ZabbixHosts == {"n1", "z1"}
\* (vhost, queue) names.
QueueNames == {<<"a", "b:q">>, <<"a:b", "q">>}

WatchEntries ==
  {[cluster_node |-> n, vhost |-> vq[1], queue |-> vq[2], zabbix_host |-> z] :
     n \in WatchNodes, vq \in QueueNames, z \in ZabbixHosts}

\* Uniqueness of a watch-list entry is (cluster node, vhost, queue).
EntryId(e) == <<e.cluster_node, e.vhost, e.queue>>

\* config['monitoring']['queues']: one or two entries.
WatchLists ==
  {<<e>> : e \in WatchEntries} \cup
  {w \in {<<e1, e2>> : e1 \in WatchEntries, e2 \in WatchEntries} :
     EntryId(w[1]) # EntryId(w[2])}

\* config.get_threshold(): the configured value, 15 when absent.
DefaultThreshold == 15
ThresholdChoices == {1, DefaultThreshold}

\* item_key = f"rabbitmq.test.queue.size[{vhost},{queue}]"
ItemKey(vhost, queue) == "rabbitmq.test.queue.size[" \o vhost \o "," \o queue \o "]"

\* get_alert_key: f"{node}:{vhost}:{queue}"
GetAlertKey(n, vhost, queue) == n \o ":" \o vhost \o ":" \o queue

\* The sink item an entry is written to: run() passes zabbix_host as the
\* cluster_node parameter of process_queue_metrics.
ItemOf(e) == <<e.zabbix_host, ItemKey(e.vhost, e.queue)>>
AlertKeyOf(e) == GetAlertKey(e.zabbix_host, e.vhost, e.queue)

ItemIds(qs) == {ItemOf(qs[i]) : i \in 1..Len(qs)}

AbsentItem == [exists |-> FALSE, lastvalue |-> NoValue]
NewItem == [exists |-> TRUE, lastvalue |-> NoValue]

\* Config.get_monitored_queue(vhost, queue, cluster_node): truthiness.
GetMonitoredQueue(qs, vhost, queue, cluster_node) ==
  \E i \in 1..Len(qs) : /\ qs[i].vhost = vhost
                        /\ qs[i].queue = queue
                        /\ qs[i].cluster_node = cluster_node

\* An order that sends the current value before it reads the previous one.
AfterStepSendFirst(step, found) ==
  CASE step = "item_exists"    -> IF found THEN "send_value" ELSE "create_item"
    [] step = "create_item"    -> "send_value"
    [] step = "send_value"     -> "get_last_value"
    [] step = "get_last_value" -> "evaluate"

\* Order of the steps of process_queue_metrics (lines 41-52).
AfterStep(step, found) ==
  CASE step = "item_exists"    -> IF found THEN "get_last_value" ELSE "create_item"
    [] step = "create_item"    -> "get_last_value"
    [] step = "get_last_value" -> "send_value"
    [] step = "send_value"     -> "evaluate"

\* Lines 51-84 of process_queue_metrics: the alerts handed to the
\* EmailSender, in order, and the new sent_alerts.
ProcessAlerts(monitored, prev, cnt, key, sent, thr) ==
  IF ~monitored THEN [emitted |-> <<>>, sent |-> sent]
  ELSE IF ~IsNone(prev) /\ cnt > ValueOf(prev)
       THEN IF key \notin sent
            THEN [emitted |-> <<"drift">> \o
                               (IF cnt > thr THEN <<"threshold">> ELSE <<>>),
                  sent |-> sent \cup {key}]
            ELSE [emitted |-> <<>>, sent |-> sent]
       ELSE [emitted |-> <<>>, sent |-> sent \ {key}]

MonitorInit ==
  /\ queues \in WatchLists
  /\ threshold \in ThresholdChoices
  /\ zabbix_items \in [ItemIds(queues) -> {AbsentItem, NewItem}]
  /\ sent_alerts = {}
  /\ mpc = "idle"
  /\ qi = 0
  /\ count = NoValue
  /\ prev_count = NoValue
  /\ steps = <<>>
  /\ emitted = <<>>
  /\ was_latched = FALSE
  /\ sink_before = NoValue
  /\ in_run = [i \in 1..Len(queues) |-> FALSE]
  /\ run_dispatched = [i \in 1..Len(queues) |-> 0]
  /\ latch_due = {}
  /\ undelivered = {}
  /\ resent = FALSE

\* run(): enter the loop over config.get_monitored_queues()
RunStart ==
  /\ mpc = "idle"
  /\ mpc' = "loop"
  /\ qi' = 0
  /\ steps' = <<>>
  /\ emitted' = <<>>
  /\ UNCHANGED <<queues, threshold, zabbix_items, sent_alerts, count, prev_count,
                 was_latched, sink_before, in_run, run_dispatched,
                 latch_due, undelivered, resent>>
  /\ UNCHANGED exceptMonitor

\* A loop that processes the entry whatever _check_queue returned.
AfterCheckAlways(c) == "item_exists"

\* run(), lines 108-111: if count is not None: process_queue_metrics(...)
AfterCheck(c) == IF IsNone(c) THEN "loop" ELSE "item_exists"

\* The loop takes up entry qi + 1 and _check_queue yields c.
TakeUp(c) ==
  /\ mpc = "loop"
  /\ qi < Len(queues)
  /\ qi' = qi + 1
  /\ count' = c
  /\ prev_count' = NoValue
  /\ steps' = <<"check">>
  /\ emitted' = <<>>
  /\ was_latched' = FALSE
  /\ sink_before' = zabbix_items[ItemOf(queues[qi + 1])].lastvalue
  /\ mpc' = AfterCheck(c)
  /\ UNCHANGED <<queues, threshold, zabbix_items, sent_alerts, in_run, run_dispatched,
                 latch_due, undelivered, resent>>
  /\ UNCHANGED exceptMonitor

\* _check_queue: no client for cluster_node -> None
CheckQueueNoClient ==
  /\ mpc = "loop" /\ qi < Len(queues)
  /\ queues[qi + 1].cluster_node \notin ClientNodes
  /\ TakeUp(NoValue)

\* _check_queue: get_queue_message_count returned None or raised -> None
CheckQueueFails ==
  /\ mpc = "loop" /\ qi < Len(queues)
  /\ queues[qi + 1].cluster_node \in ClientNodes
  /\ TakeUp(NoValue)

\* _check_queue: the broker answered with a message count
CheckQueueReads ==
  /\ mpc = "loop" /\ qi < Len(queues)
  /\ queues[qi + 1].cluster_node \in ClientNodes
  /\ \E v \in 0..MaxCount : TakeUp(Some(v))

CurrentItem == ItemOf(queues[qi])

\* zabbix.item_exists: len(items) > 0, or False on ZabbixAPIException
ItemExists ==
  /\ mpc = "item_exists"
  /\ \E api_ok \in BOOLEAN :
       mpc' = AfterStep("item_exists", api_ok /\ zabbix_items[CurrentItem].exists)
  /\ steps' = Append(steps, "item_exists")
  /\ UNCHANGED <<queues, threshold, zabbix_items, sent_alerts, qi, count, prev_count,
                 emitted, was_latched, sink_before, in_run, run_dispatched,
                 latch_due, undelivered, resent>>
  /\ UNCHANGED exceptMonitor

\* zabbix.create_item: the item is created when the host is known and the
\* item is new; anything else is a ZabbixAPIException, logged
CreateItem ==
  /\ mpc = "create_item"
  /\ \E accepted \in BOOLEAN :
       zabbix_items' = IF accepted /\ ~zabbix_items[CurrentItem].exists
                       THEN [zabbix_items EXCEPT ![CurrentItem] = NewItem]
                       ELSE zabbix_items
  /\ steps' = Append(steps, "create_item")
  /\ mpc' = AfterStep("create_item", FALSE)
  /\ UNCHANGED <<queues, threshold, sent_alerts, qi, count, prev_count,
                 emitted, was_latched, sink_before, in_run, run_dispatched,
                 latch_due, undelivered, resent>>
  /\ UNCHANGED exceptMonitor

\* zabbix.get_last_value: int(lastvalue) of the item; None when there is no
\* item, no value yet, or a ZabbixAPIException
GetLastValue ==
  /\ mpc = "get_last_value"
  /\ \E api_ok \in BOOLEAN :
       prev_count' = IF api_ok /\ zabbix_items[CurrentItem].exists
                     THEN zabbix_items[CurrentItem].lastvalue
                     ELSE NoValue
  /\ steps' = Append(steps, "get_last_value")
  /\ mpc' = AfterStep("get_last_value", FALSE)
  /\ UNCHANGED <<queues, threshold, zabbix_items, sent_alerts, qi, count,
                 emitted, was_latched, sink_before, in_run, run_dispatched,
                 latch_due, undelivered, resent>>
  /\ UNCHANGED exceptMonitor

\* zabbix.send_value: never raises; the sink stores the value when the
\* packet arrives and the trapper item exists
SendValue ==
  /\ mpc = "send_value"
  /\ \E delivered \in BOOLEAN :
       zabbix_items' = IF delivered /\ zabbix_items[CurrentItem].exists
                       THEN [zabbix_items EXCEPT ![CurrentItem].lastvalue = count]
                       ELSE zabbix_items
  /\ steps' = Append(steps, "send_value")
  /\ mpc' = AfterStep("send_value", FALSE)
  /\ UNCHANGED <<queues, threshold, sent_alerts, qi, count, prev_count,
                 emitted, was_latched, sink_before, in_run, run_dispatched,
                 latch_due, undelivered, resent>>
  /\ UNCHANGED exceptMonitor

\* An exception other than ZabbixAPIException (transport error) leaves the
\* API call, process_queue_metrics and the loop: run() logs it and calls
\* sys.exit(1).
ApiCallRaises ==
  /\ mpc \in {"item_exists", "create_item", "get_last_value"}
  /\ mpc' = "exited"
  /\ UNCHANGED <<queues, threshold, zabbix_items, sent_alerts, qi, count, prev_count,
                 steps, emitted, was_latched, sink_before, in_run, run_dispatched,
                 latch_due, undelivered, resent>>
  /\ UNCHANGED exceptMonitor

Increased == ~IsNone(prev_count) /\ ValueOf(count) > ValueOf(prev_count)
\* The cycle observed the metric at or below the previous value.
NotAbovePrevious == ~IsNone(prev_count) /\ ValueOf(count) <= ValueOf(prev_count)

\* process_queue_metrics, lines 50-84; the EmailSender delivers the drift
\* alert or logs the failure (email_sender.py, lines 53-89) and returns
Evaluate ==
  /\ mpc = "evaluate"
  /\ LET e   == queues[qi]
         out == ProcessAlerts(
                  GetMonitoredQueue(queues, e.vhost, e.queue, e.zabbix_host),
                  prev_count, ValueOf(count), AlertKeyOf(e), sent_alerts,
                  threshold)
         hit == IF \E k \in 1..Len(out.emitted) : out.emitted[k] = "drift"
                THEN 1 ELSE 0
     IN  /\ emitted' = out.emitted
         /\ sent_alerts' = out.sent
         /\ was_latched' = (AlertKeyOf(e) \in sent_alerts)
         /\ in_run' = [in_run EXCEPT ![qi] = Increased]
         /\ run_dispatched' =
              [run_dispatched EXCEPT ![qi] =
                 IF Increased THEN (IF @ + hit > 2 THEN 2 ELSE @ + hit) ELSE 0]
         /\ latch_due' =
              IF hit = 1 THEN latch_due \cup {AlertKeyOf(e)}
              ELSE IF NotAbovePrevious THEN latch_due \ {AlertKeyOf(e)}
              ELSE latch_due
         /\ \E delivered \in BOOLEAN :
              undelivered' =
                IF hit = 1
                THEN (IF delivered THEN undelivered \ {qi} ELSE undelivered \cup {qi})
                ELSE IF NotAbovePrevious THEN undelivered \ {qi}
                ELSE undelivered
         /\ resent' = (hit = 1 /\ qi \in undelivered)
  /\ steps' = Append(steps, "evaluate")
  /\ mpc' = "loop"
  /\ UNCHANGED <<queues, threshold, zabbix_items, qi, count, prev_count, sink_before>>
  /\ UNCHANGED exceptMonitor

\* run(): the loop is exhausted, run returns
RunReturn ==
  /\ mpc = "loop"
  /\ qi = Len(queues)
  /\ mpc' = "idle"
  /\ UNCHANGED <<queues, threshold, zabbix_items, sent_alerts, qi, count, prev_count,
                 steps, emitted, was_latched, sink_before, in_run, run_dispatched,
                 latch_due, undelivered, resent>>
  /\ UNCHANGED exceptMonitor

MonitorNext ==
  \/ RunStart
  \/ CheckQueueNoClient
  \/ CheckQueueFails
  \/ CheckQueueReads
  \/ ItemExists
  \/ CreateItem
  \/ GetLastValue
  \/ SendValue
  \/ ApiCallRaises
  \/ Evaluate
  \/ RunReturn

MonitorSpecInit ==
  BrokerUnused /\ RuleUnused /\ SinkUnused /\ LateUnused /\ MonitorInit

MonitorSpec == MonitorSpecInit /\ [][MonitorNext]_vars

\* The entry qi has just been evaluated.
Evaluated == steps # <<>> /\ steps[Len(steps)] = "evaluate"

MonitorTypeOK ==
  /\ mpc \in {"idle", "loop", "item_exists", "create_item", "get_last_value",
              "send_value", "evaluate", "exited"}
  /\ qi \in 0..Len(queues)

\* ----------------------------------------------------------------------
\* Properties of QueueMonitor
\* ----------------------------------------------------------------------
DriftEmitted == \E k \in 1..Len(emitted) : emitted[k] = "drift"
ThresholdEmitted == \E k \in 1..Len(emitted) : emitted[k] = "threshold"

\* C1: for a monitored queue a drift notification is dispatched only when
\* the value increased and the key was not latched; every run of consecutive
\* increasing cycles of a watch-list entry has dispatched exactly one
\* notification (so the first increase after a cycle with current <=
\* previous dispatches again).
C1_OneDriftNotificationPerRun ==
  /\ (Evaluated /\ DriftEmitted) => (Increased /\ ~was_latched)
  /\ \A i \in 1..Len(queues) : in_run[i] => run_dispatched[i] = 1

\* C3: for every processed queue a threshold alert is emitted exactly when
\* the current count is greater than the absolute threshold, whatever the
\* previous value is and whether or not a drift alert fires; when both fire
\* the drift alert comes first.
C3_ThresholdAlertIffAboveThreshold ==
  Evaluated =>
    /\ ThresholdEmitted <=> (ValueOf(count) > threshold)
    /\ (ThresholdEmitted /\ DriftEmitted) => emitted = <<"drift", "threshold">>

\* C11: an exception raised while one monitored queue is processed is
\* caught and logged; the remaining queues of the cycle are still taken up
\* and the process is not terminated.
C11_QueueExceptionDoesNotAbortCycle == mpc # "exited"

\* C12: when a queue has been processed its key is in sent_alerts exactly
\* when an alert was dispatched for the key and no cycle since then observed
\* the metric at or below the previous value; after a cycle with current <=
\* previous the key is absent.
C12_CacheHoldsExactlyUnclearedDispatches ==
  Evaluated =>
    /\ (AlertKeyOf(queues[qi]) \in sent_alerts) <=>
         (AlertKeyOf(queues[qi]) \in latch_due)
    /\ NotAbovePrevious => AlertKeyOf(queues[qi]) \notin sent_alerts

StepsWithItem ==
  <<"check", "item_exists", "get_last_value", "send_value", "evaluate">>
StepsWithCreate ==
  <<"check", "item_exists", "create_item", "get_last_value", "send_value",
    "evaluate">>

\* C10: for each processed queue the steps run in the order: item exists
\* (create if not found), read the previous value, send the current value,
\* evaluate; the previous value is read before the send, so the value the
\* rule compares against is the one the sink held before this queue's send.
C10_ReadPreviousBeforeSend ==
  /\ IsPrefix(steps, StepsWithItem) \/ IsPrefix(steps, StepsWithCreate)
  /\ (Evaluated /\ ~IsNone(prev_count)) => prev_count = sink_before

\* C10 witness: the queue was evaluated against an older value while the
\* sink already holds the different value sent in this cycle.
C10_Witness ==
  /\ Evaluated
  /\ ~IsNone(prev_count)
  /\ prev_count # count
  /\ zabbix_items[CurrentItem].lastvalue = count

\* ======================================================================
\* Part 4: ZabbixClient.send_value (app/core/zabbix.py): the choice of the
\* delivery method, the external-tool send with its temporary files, and
\* the plain-socket send with its reading of the server's response.
\* Strings the code searches are sequences of one-character strings.
\* ======================================================================
TlsConnectChoices == {"unencrypted", "psk", "cert"}

\* _get_tls_config: 'enabled' is set when tls_connect is not 'unencrypted'
TlsEnabled(connect) == connect # "unencrypted"

SetMin(S) == CHOOSE x \in S : \A y \in S : x <= y
SetMax(S) == CHOOSE x \in S : \A y \in S : x >= y

\* str.split(';')[0]
SplitFirst(s) ==
  LET at == {i \in 1..Len(s) : s[i] = ";"}
  IN  IF at = {} THEN s ELSE SubSeq(s, 1, SetMin(at) - 1)

\* str.strip()
Strip(s) ==
  LET ink == {i \in 1..Len(s) : s[i] # " "}
  IN  IF ink = {} THEN <<>> ELSE SubSeq(s, SetMin(ink), SetMax(ink))

\* sub in s
Contains(s, sub) ==
  \E i \in 1..(Len(s) - Len(sub) + 1) : SubSeq(s, i, i + Len(sub) - 1) = sub

ProcessedColonOne == <<"p", "r", "o", "c", "e", "s", "s", "e", "d", ":", " ", "1">>
ProcessedOne == <<"p", "r", "o", "c", "e", "s", "s", "e", "d", " ", "1">>

\* info strings a trapper may answer with
InfoOneProcessed ==
  <<"p", "r", "o", "c", "e", "s", "s", "e", "d", ":", " ", "1",
    ";", " ", "f", "a", "i", "l", "e", "d", ":", " ", "0">>
InfoNoneProcessed ==
  <<"p", "r", "o", "c", "e", "s", "s", "e", "d", ":", " ", "0",
    ";", " ", "f", "a", "i", "l", "e", "d", ":", " ", "1">>
InfoTenProcessed ==
  <<"p", "r", "o", "c", "e", "s", "s", "e", "d", ":", " ", "1",
    "0", ";", " ", "f", "a", "i", "l", "e", "d", ":", " ", "0">>
InfoNoColon ==
  <<"p", "r", "o", "c", "e", "s", "s", "e", "d", " ", "1", ";",
    " ", "f", "a", "i", "l", "e", "d", " ", "0">>
InfoEmpty == <<>>
Infos == {InfoOneProcessed, InfoNoneProcessed, InfoTenProcessed, InfoNoColon,
          InfoEmpty}

\* Response bodies: a JSON object with an optional 'response' field and an
\* info string, or bytes that json.loads rejects (cut short or malformed).
Bodies ==
  {[kind |-> "json", response |-> r, info |-> i] :
     r \in {"success", "failed", "absent"}, i \in Infos}
  \cup {[kind |-> "malformed", response |-> "absent", info |-> InfoEmpty]}

HeaderLength == 13
\* what recv(13) may hand back: nothing, a part, or the whole header
HeaderReads == {0, 5, HeaderLength}

\* Lines 226-236: the verdict on a parsed response.
SocketVerdict(body) ==
  IF body.response = "success"
  THEN LET processed == Strip(SplitFirst(body.info))
       IN  Contains(processed, ProcessedColonOne) \/ Contains(processed, ProcessedOne)
  ELSE FALSE

SenderInit ==
  /\ tls_connect \in TlsConnectChoices
  /\ psk_key_given \in BOOLEAN
  /\ psk_file_given \in BOOLEAN
  /\ spc = "idle"
  /\ temp_files = <<>>
  /\ disk_files = {}
  /\ deliveries = <<>>
  /\ wire = <<>>
  /\ reply = <<>>
  /\ send_result = "None"

SenderConfig == <<tls_connect, psk_key_given, psk_file_given>>

\* Line 398: the external tool is chosen when TLS is enabled and the
\* transport is 'psk'; everything else goes to the plain socket.
ChooseDelivery(connect) ==
  IF TlsEnabled(connect) /\ connect = "psk" THEN "cli" ELSE "socket"

\* A send that retries over the plain socket when the tool send failed.
AfterCliFallsBack(ok) == IF ok THEN "returned" ELSE "sock_connect"

\* Line 400: send_value returns what _send_with_zabbix_sender_cli returned.
AfterCli(ok) == "returned"

\* send_value(host, key, value): lines 392-404
SendValueCall ==
  /\ spc \in {"idle", "returned"}
  /\ LET via == ChooseDelivery(tls_connect)
     IN  /\ deliveries' = <<via>>
         /\ spc' = IF via = "cli" THEN "cli_data_file" ELSE "sock_connect"
  /\ temp_files' = <<>>
  /\ disk_files' = {}
  /\ wire' = <<>>
  /\ reply' = <<>>
  /\ send_result' = "None"
  /\ UNCHANGED SenderConfig
  /\ UNCHANGED exceptSender

\* The tool send is left: by 'return' or through 'except Exception'
\* (lines 168-177); nothing is removed on the way out.
CliLeaves(ok) ==
  /\ send_result' = IF ok THEN "True" ELSE "False"
  /\ spc' = AfterCli(ok)
  /\ deliveries' = IF AfterCli(ok) = "returned" THEN deliveries
                   ELSE Append(deliveries, "socket")

\* Lines 118-121: the data file is written and remembered, or creating it
\* raises OSError.
CliDataFile ==
  /\ spc = "cli_data_file"
  /\ \/ /\ disk_files' = disk_files \cup {"data_file"}
        /\ temp_files' = Append(temp_files, "data_file")
        /\ spc' = "cli_build"
        /\ UNCHANGED <<send_result, deliveries>>
     \/ /\ CliLeaves(FALSE)
        /\ UNCHANGED <<disk_files, temp_files>>
  /\ UNCHANGED <<SenderConfig, wire, reply>>
  /\ UNCHANGED exceptSender

\* Lines 133-148: the PSK parameters. With a literal key and a key file
\* both configured, os.path.exists is evaluated: the module never imports
\* os, so NameError is raised. With a literal key only, the key is written
\* to a temporary file. Otherwise the configured file is used.
CliBuildCommand ==
  /\ spc = "cli_build"
  /\ IF tls_connect = "psk" /\ psk_key_given /\ psk_file_given
     THEN /\ CliLeaves(FALSE)
          /\ UNCHANGED <<disk_files, temp_files>>
     ELSE IF tls_connect = "psk" /\ psk_key_given
     THEN \/ /\ disk_files' = disk_files \cup {"psk_file"}
             /\ temp_files' = Append(temp_files, "psk_file")
             /\ spc' = "cli_run"
             /\ UNCHANGED <<send_result, deliveries>>
          \/ /\ CliLeaves(FALSE)
             /\ UNCHANGED <<disk_files, temp_files>>
     ELSE /\ spc' = "cli_run"
          /\ UNCHANGED <<send_result, deliveries, disk_files, temp_files>>
  /\ UNCHANGED <<SenderConfig, wire, reply>>
  /\ UNCHANGED exceptSender

ToolOutcomes == {"processed_one", "unexpected_output", "nonzero_exit"}

\* Line 152: subprocess.run returns the tool's result
CliRun ==
  /\ spc = "cli_run"
  /\ wire' = Append(wire, "run_tool")
  /\ \E o \in ToolOutcomes : reply' = [tool |-> o]
  /\ spc' = "cli_cleanup"
  /\ UNCHANGED <<SenderConfig, temp_files, disk_files, deliveries, send_result>>
  /\ UNCHANGED exceptSender

\* Line 152: subprocess.run raises (tool not installed, not executable)
CliRunRaises ==
  /\ spc = "cli_run"
  /\ wire' = Append(wire, "run_tool")
  /\ CliLeaves(FALSE)
  /\ UNCHANGED <<SenderConfig, temp_files, disk_files, reply>>
  /\ UNCHANGED exceptSender

\* os.unlink(file) at line 157: os is not imported, the call raises
\* NameError, which the inner 'except Exception' logs; the file stays.
Unlink(files, file) == files

\* Lines 155-159: the clean-up loop over temp_files
CliCleanup ==
  /\ spc = "cli_cleanup"
  /\ disk_files' = IF Len(temp_files) = 0 THEN disk_files
                   ELSE IF Len(temp_files) = 1
                        THEN Unlink(disk_files, temp_files[1])
                        ELSE Unlink(Unlink(disk_files, temp_files[1]), temp_files[2])
  /\ spc' = "cli_check"
  /\ UNCHANGED <<SenderConfig, temp_files, deliveries, wire, reply, send_result>>
  /\ UNCHANGED exceptSender

\* Lines 168-173: return code 0 and the expected text in stdout
CliCheck ==
  /\ spc = "cli_check"
  /\ CliLeaves(reply.tool = "processed_one")
  /\ UNCHANGED <<SenderConfig, temp_files, disk_files, wire, reply>>
  /\ UNCHANGED exceptSender

\* The socket send is left: by 'return' or through 'except Exception'
\* (lines 229-243); the socket is closed on the way out.
SocketLeaves(ok) ==
  /\ send_result' = IF ok THEN "True" ELSE "False"
  /\ spc' = "returned"

\* Line 208: sock.connect succeeds, or is refused or times out
SockConnect ==
  /\ spc = "sock_connect"
  /\ wire' = Append(wire, "connect")
  /\ \/ spc' = "sock_send" /\ UNCHANGED send_result
     \/ SocketLeaves(FALSE)
  /\ UNCHANGED <<SenderConfig, temp_files, disk_files, deliveries, reply>>
  /\ UNCHANGED exceptSender

\* Line 211: sock.sendall(packet) puts the packet on the plain connection
SockSendAll ==
  /\ spc = "sock_send"
  /\ wire' = Append(wire, "sendall")
  /\ \/ spc' = "sock_header" /\ UNCHANGED send_result
     \/ SocketLeaves(FALSE)
  /\ UNCHANGED <<SenderConfig, temp_files, disk_files, deliveries, reply>>
  /\ UNCHANGED exceptSender

\* Lines 214-217: recv(13); fewer than 13 bytes is a failure
SockHeader ==
  /\ spc = "sock_header"
  /\ \E n \in HeaderReads :
       /\ reply' = [header |-> n]
       /\ IF n < HeaderLength
          THEN SocketLeaves(FALSE)
          ELSE spc' = "sock_body" /\ UNCHANGED send_result
  /\ UNCHANGED <<SenderConfig, temp_files, disk_files, deliveries, wire>>
  /\ UNCHANGED exceptSender

\* Lines 219-236: recv(response_length), json.loads and the verdict;
\* json.loads raises on bytes that are not a JSON document
SockBody ==
  /\ spc = "sock_body"
  /\ \E b \in Bodies :
       /\ reply' = [header |-> reply.header, body |-> b]
       /\ SocketLeaves(IF b.kind = "json" THEN SocketVerdict(b) ELSE FALSE)
  /\ UNCHANGED <<SenderConfig, temp_files, disk_files, deliveries, wire>>
  /\ UNCHANGED exceptSender

\* Lines 214, 220: recv times out (settimeout(5)) or the peer resets
SockRecvRaises ==
  /\ spc \in {"sock_header", "sock_body"}
  /\ SocketLeaves(FALSE)
  /\ UNCHANGED <<SenderConfig, temp_files, disk_files, deliveries, wire, reply>>
  /\ UNCHANGED exceptSender

SenderNext ==
  \/ SendValueCall
  \/ CliDataFile
  \/ CliBuildCommand
  \/ CliRun
  \/ CliRunRaises
  \/ CliCleanup
  \/ CliCheck
  \/ SockConnect
  \/ SockSendAll
  \/ SockHeader
  \/ SockBody
  \/ SockRecvRaises

SenderSpecInit ==
  BrokerUnused /\ RuleUnused /\ MonitorUnused /\ PacketUnused /\ ApiUnused
    /\ LateUnused /\ SenderInit

SenderSpec == SenderSpecInit /\ [][SenderNext]_vars

\* ----------------------------------------------------------------------
\* Properties of send_value
\* ----------------------------------------------------------------------
SendReturned == spc = "returned"
OnWire(ev) == \E k \in 1..Len(wire) : wire[k] = ev

Digit == [c \in {"0", "1", "2", "3", "4", "5", "6", "7", "8", "9"} |->
            CASE c = "0" -> 0 [] c = "1" -> 1 [] c = "2" -> 2 [] c = "3" -> 3
              [] c = "4" -> 4 [] c = "5" -> 5 [] c = "6" -> 6 [] c = "7" -> 7
              [] c = "8" -> 8 [] c = "9" -> 9]

RECURSIVE DecimalAt(_, _, _)
\* the number written in decimal digits from position i on, after acc
DecimalAt(s, i, acc) ==
  IF i <= Len(s) /\ s[i] \in DOMAIN Digit
  THEN DecimalAt(s, i + 1, acc * 10 + Digit[s[i]])
  ELSE acc

\* The number of processed items an info string reports: the decimal number
\* after the word 'processed' (with or without a colon); -1 when absent.
ReportedProcessed(info) ==
  LET word   == <<"p", "r", "o", "c", "e", "s", "s", "e", "d">>
      starts == {i \in 1..(Len(info) - Len(word) + 1) :
                   SubSeq(info, i, i + Len(word) - 1) = word}
  IN  IF starts = {} THEN -1
      ELSE LET a == SetMin(starts) + Len(word)
               b == IF a <= Len(info) /\ info[a] = ":" THEN a + 1 ELSE a
               c == IF b <= Len(info) /\ info[b] = " " THEN b + 1 ELSE b
           IN  IF c <= Len(info) /\ info[c] \in DOMAIN Digit
               THEN DecimalAt(info, c, 0) ELSE -1

SocketAnswered ==
  SendReturned /\ deliveries = <<"socket">> /\ OnWire("sendall")
    /\ DOMAIN reply = {"header", "body"}

\* C13: a plain-socket send reports success exactly when a full 13-byte
\* header was read, the body's response field is "success" and the info
\* string reports exactly one processed item; 0 or any other count, such as
\* 10, is a failure.
C13_SocketSuccessIffExactlyOneProcessed ==
  (SendReturned /\ deliveries = <<"socket">>) =>
    (send_result = "True" <=>
       /\ SocketAnswered
       /\ reply.header = HeaderLength
       /\ reply.body.kind = "json"
       /\ reply.body.response = "success"
       /\ ReportedProcessed(reply.body.info) = 1)

\* C15: the external tool is used whenever the configured transport is
\* 'psk' or 'cert'; the plain socket only without transport security: no
\* value is put on the plain socket under 'psk' or 'cert'.
C15_NoPlainSocketWhenEncrypted ==
  /\ (tls_connect \in {"psk", "cert"} /\ deliveries # <<>>) => deliveries[1] = "cli"
  /\ (tls_connect = "unencrypted" /\ deliveries # <<>>) => deliveries[1] = "socket"
  /\ tls_connect \in {"psk", "cert"} => ~OnWire("sendall")

\* C16: when an external-tool send returns, every temporary file it created
\* (data file, and key file for a literal key) has been removed, whether
\* the tool succeeded, failed, or launching it raised.
C16_TemporaryFilesRemovedOnReturn ==
  (SendReturned /\ deliveries[1] = "cli") => disk_files = {}

\* C17: send_value never raises; whatever fails it returns False to the
\* caller, and one call invokes exactly one delivery method once (a failed
\* delivery is not retried, neither by the same nor by the other method).
C17_SendValueNeverRaisesOneAttempt ==
  /\ spc # "raised"
  /\ SendReturned =>
       /\ send_result \in {"True", "False"}
       /\ Len(deliveries) = 1
       /\ Cardinality({k \in 1..Len(wire) : wire[k] \in {"connect", "run_tool"}}) <= 1
  /\ (SendReturned /\ DOMAIN reply = {"header"}) => send_result = "False"
  /\ (SendReturned /\ DOMAIN reply = {"header", "body"}
        /\ reply.body.kind = "malformed") => send_result = "False"
  /\ (SendReturned /\ DOMAIN reply = {"tool"}
        /\ reply.tool # "processed_one") => send_result = "False"

\* C17 witness: a failed delivery (refused connection, or a tool that could
\* not be run) has returned False after its single attempt.
C17_Witness ==
  /\ SendReturned
  /\ send_result = "False"
  /\ \/ wire = <<"connect">>
     \/ wire = <<"run_tool">> /\ reply = <<>>

\* ======================================================================
\* Part 5: the sender packet of _send_with_socket, as built by
\* app/core/zabbix.py (lines 183-200) and by src/zabbix_client.py (lines
\* 105-126), and its decoding. Text is a sequence of characters, a packet
\* a sequence of bytes (0..255). "U+00E9" stands for one non-ASCII letter.
\* ======================================================================
MaxHostLen == 2
LongLen == 200

\* printable ASCII, code 32 first (two quote marks are spelled out)
AsciiChars ==
  <<
    " ", "!", "\"", "#", "$", "%", "&", "APOSTROPHE", "(", ")", "*", "+",
    ",", "-", ".", "/", "0", "1", "2", "3", "4", "5", "6", "7",
    "8", "9", ":", ";", "<", "=", ">", "?", "@", "A", "B", "C",
    "D", "E", "F", "G", "H", "I", "J", "K", "L", "M", "N", "O",
    "P", "Q", "R", "S", "T", "U", "V", "W", "X", "Y", "Z", "[",
    "\\", "]", "^", "_", "GRAVE", "a", "b", "c", "d", "e", "f", "g",
    "h", "i", "j", "k", "l", "m", "n", "o", "p", "q", "r", "s",
    "t", "u", "v", "w", "x", "y", "z", "{", "|", "}", "~"
  >>

Ord(c) == 31 + (CHOOSE i \in 1..Len(AsciiChars) : AsciiChars[i] = c)
Chr(b) == IF b - 31 \in 1..Len(AsciiChars) THEN AsciiChars[b - 31] ELSE "?"

HostAlphabet == {"h", "\"", "\\", "U+00E9"}
HostNames == UNION {[1..n -> HostAlphabet] : n \in 0..MaxHostLen}
ShortKey == <<"q", "[", "v", ",", "n", "]">>
LongKey == [i \in 1..LongLen |-> "k"]
ItemKeys == {ShortKey, LongKey}
DataValues == {0, 7, 1500}
DataPoints ==
  {[host |-> h, key |-> k, value |-> v] :
     h \in HostNames, k \in ItemKeys, v \in DataValues}

DigitChars == <<"0", "1", "2", "3", "4", "5", "6", "7", "8", "9">>

RECURSIVE StrOfInt(_)
\* str(value) of a non-negative int
StrOfInt(n) ==
  IF n < 10 THEN <<DigitChars[n + 1]>>
  ELSE Append(StrOfInt(n \div 10), DigitChars[(n % 10) + 1])

\* json.dumps of one character of a string (ensure_ascii is the default)
EscapeChar(c) ==
  CASE c = "\""     -> <<"\\", "\"">>
    [] c = "\\"     -> <<"\\", "\\">>
    [] c = "U+00E9" -> <<"\\", "u", "0", "0", "e", "9">>
    [] OTHER        -> <<c>>

RECURSIVE EscapeRange(_, _, _)
\* the escaped characters lo..hi of s, put together by halves
EscapeRange(s, lo, hi) ==
  IF lo > hi THEN <<>>
  ELSE IF lo = hi THEN EscapeChar(s[lo])
  ELSE LET mid == (lo + hi) \div 2
       IN  EscapeRange(s, lo, mid) \o EscapeRange(s, mid + 1, hi)

JsonString(s) == <<"\"">> \o EscapeRange(s, 1, Len(s)) \o <<"\"">>

\* json.dumps(data) with the default separators
JsonDumps(dp) ==
  <<"{", "\"", "r", "e", "q", "u", "e", "s", "t", "\"", ":", " ",
    "\"", "s", "e", "n", "d", "e", "r", " ", "d", "a", "t", "a",
    "\"", ",", " ", "\"", "d", "a", "t", "a", "\"", ":", " ", "[",
    "{", "\"", "h", "o", "s", "t", "\"", ":", " ">>
  \o JsonString(dp.host) \o
  <<",", " ", "\"", "k", "e", "y", "\"", ":", " ">>
  \o JsonString(dp.key) \o
  <<",", " ", "\"", "v", "a", "l", "u", "e", "\"", ":", " ">>
  \o JsonString(StrOfInt(dp.value)) \o
  <<"}", "]", "}">>

\* str.encode('utf-8') of ASCII text
EncodeText(text) == [i \in 1..Len(text) |-> Ord(text[i])]

ByteBase == 256
\* int.to_bytes(4, byteorder='little')
ToBytesLittle(n) ==
  <<n % ByteBase, (n \div ByteBase) % ByteBase,
    (n \div (ByteBase * ByteBase)) % ByteBase,
    (n \div (ByteBase * ByteBase * ByteBase)) % ByteBase>>

\* b'ZBXD\1'
Magic == <<Ord("Z"), Ord("B"), Ord("X"), Ord("D"), 1>>
Reserved == <<0, 0, 0, 0>>

\* src/zabbix_client.py:116-117, 126: the length is formatted into the
\* text of the packet as a decimal number
BuildPacketLegacy(dp) ==
  LET json_data == JsonDumps(dp)
  IN  Magic \o EncodeText(StrOfInt(Len(json_data))) \o Reserved
        \o EncodeText(json_data)

\* app/core/zabbix.py:198-200
BuildPacket(dp) ==
  LET json_data == EncodeText(JsonDumps(dp))
  IN  Magic \o ToBytesLittle(Len(json_data)) \o Reserved \o json_data

\* int.from_bytes(b, byteorder='little')
FromBytesLittle(b) ==
  b[1] + ByteBase * (b[2] + ByteBase * (b[3] + ByteBase * b[4]))

\* The decoder of the sender protocol: the length is read from header
\* bytes 5..8 and exactly that many payload bytes follow the 13-byte header.
DeclaredLength(pkt) == FromBytesLittle(SubSeq(pkt, 6, 9))
Payload(pkt) == SubSeq(pkt, HeaderLength + 1, HeaderLength + DeclaredLength(pkt))

DecodeText(bytes) == [i \in 1..Len(bytes) |-> Chr(bytes[i])]

HexDigits == <<"0", "1", "2", "3", "4", "5", "6", "7", "8", "9",
               "a", "b", "c", "d", "e", "f">>
HexValue(c) == (CHOOSE i \in 1..Len(HexDigits) : HexDigits[i] = c) - 1
NonAsciiLetter == 233

\* the character a \uXXXX escape with this code denotes
Unicode(code) == IF code = NonAsciiLetter THEN "U+00E9" ELSE Chr(code)

\* json.loads, reduced to the string literals of the document in order.
\* The scanner's state: mode ("out" of a literal, "in" one, after a
\* backslash, inside \uXXXX), the literal read so far, the literals
\* closed so far, and the digits and code of a \uXXXX escape.
ScanStart == [mode |-> "out", cur |-> <<>>, acc |-> <<>>, digits |-> 0, code |-> 0]

ScanStep(st, c) ==
  CASE st.mode = "out" ->
         IF c = "\"" THEN [st EXCEPT !.mode = "in", !.cur = <<>>] ELSE st
    [] st.mode = "in" ->
         IF c = "\"" THEN [st EXCEPT !.mode = "out", !.acc = Append(st.acc, st.cur)]
         ELSE IF c = "\\" THEN [st EXCEPT !.mode = "escape"]
         ELSE [st EXCEPT !.cur = Append(st.cur, c)]
    [] st.mode = "escape" ->
         IF c = "u" THEN [st EXCEPT !.mode = "unicode", !.digits = 0, !.code = 0]
         ELSE [st EXCEPT !.mode = "in", !.cur = Append(st.cur, c)]
    [] st.mode = "unicode" ->
         LET code == st.code * 16 + HexValue(c)
         IN  IF st.digits = 3
             THEN [st EXCEPT !.mode = "in", !.cur = Append(st.cur, Unicode(code)),
                             !.digits = 0, !.code = 0]
             ELSE [st EXCEPT !.digits = st.digits + 1, !.code = code]

RECURSIVE ScanRange(_, _, _, _)
\* the scanner run over characters lo..hi, by halves: first the left half,
\* then the right half from the state the left half ended in
ScanRange(text, lo, hi, st) ==
  IF lo > hi THEN st
  ELSE IF lo = hi THEN ScanStep(st, text[lo])
  ELSE LET mid  == (lo + hi) \div 2
           left == ScanRange(text, lo, mid, st)
       IN  IF left.mode = "none" THEN left ELSE ScanRange(text, mid + 1, hi, left)

JsonStrings(text) == ScanRange(text, 1, Len(text), ScanStart).acc

Undecodable == [host |-> <<"?">>, key |-> <<"?">>, value |-> <<"?">>]

\* What a receiver recovers from a packet: host, key and value as text.
DecodePacket(pkt) ==
  IF Len(pkt) < HeaderLength \/ Len(pkt) < HeaderLength + DeclaredLength(pkt)
  THEN Undecodable
  ELSE LET lits == JsonStrings(DecodeText(Payload(pkt)))
       IN  IF Len(lits) = 9 /\ lits[4] = <<"h", "o", "s", "t">>
              /\ lits[6] = <<"k", "e", "y">> /\ lits[8] = <<"v", "a", "l", "u", "e">>
           THEN [host |-> lits[5], key |-> lits[7], value |-> lits[9]]
           ELSE Undecodable

PacketInit ==
  /\ data_point \in DataPoints
  /\ packet = <<>>
  /\ built_by = "none"

\* app/core/zabbix.py, _send_with_socket lines 183-200
BuildCore ==
  /\ built_by = "none"
  /\ packet' = BuildPacket(data_point)
  /\ built_by' = "core"
  /\ UNCHANGED data_point
  /\ UNCHANGED exceptPacket

\* src/zabbix_client.py, _send_with_socket lines 105-117
BuildLegacy ==
  /\ built_by = "none"
  /\ packet' = BuildPacketLegacy(data_point)
  /\ built_by' = "legacy"
  /\ UNCHANGED data_point
  /\ UNCHANGED exceptPacket

PacketNext == BuildCore \/ BuildLegacy

PacketSpecInit ==
  BrokerUnused /\ RuleUnused /\ MonitorUnused /\ SenderUnused /\ ApiUnused
    /\ LateUnused /\ PacketInit

PacketSpec == PacketSpecInit /\ [][PacketNext]_vars

\* C14: the packet of a data point is 'ZBXD' 0x01, the payload's byte
\* length as 4 little-endian bytes, 4 zero bytes and the JSON payload; the
\* declared length is the payload's length, and decoding the packet (length
\* from header bytes 5..8, that many payload bytes) gives back host, key
\* and value.
C14_PacketLayoutAndRoundTrip ==
  built_by # "none" =>
    /\ Len(packet) >= HeaderLength
    /\ SubSeq(packet, 1, 5) = Magic
    /\ SubSeq(packet, 6, 9) = ToBytesLittle(Len(packet) - HeaderLength)
    /\ SubSeq(packet, 10, HeaderLength) = Reserved
    /\ DeclaredLength(packet) = Len(packet) - HeaderLength
    /\ DecodePacket(packet) = [host  |-> data_point.host,
                               key   |-> data_point.key,
                               value |-> StrOfInt(data_point.value)]

\* ======================================================================
\* Part 6: the control plane. The endpoints share one ZabbixClient
\* (get_zabbix_client, endpoints/zabbix.py:18-25); its constructor logs in
\* (app/core/zabbix.py:14-28) and re-raises a failed login. The server
\* keeps, for the item, its cached last and previous value and its history
\* rows; values are the decimal text the API returns.
\* ======================================================================
MaxRows == 2

TextValues == {<<"7">>, <<"3", "6">>, <<"4", "2">>}
ControlCalls == {"item_exists", "create_item", "get_last_value",
                 "get_last_two_values"}

AbsentServerItem == [exists |-> FALSE, lastvalue |-> NoValue, prevvalue |-> NoValue]
FreshServerItem == [exists |-> TRUE, lastvalue |-> NoValue, prevvalue |-> NoValue]

\* int(text) of decimal text
ParseInt(text) == DecimalAt(text, 1, 0)

\* history.get(sortfield="clock", sortorder="DESC", limit=2) on rows kept
\* oldest first
HistoryGet(rows) ==
  [k \in 1..(IF Len(rows) < 2 THEN Len(rows) ELSE 2) |-> rows[Len(rows) + 1 - k]]

\* get_last_two_values, lines 369-386, for an item in the given state
LastTwoValues(it, rows) ==
  IF ~it.exists THEN <<NoValue, NoValue>>
  ELSE LET hist == HistoryGet(rows)
       IN  <<IF Len(hist) > 0 THEN Some(ParseInt(hist[1])) ELSE NoValue,
             IF Len(hist) > 1 THEN Some(ParseInt(hist[2])) ELSE NoValue>>

ApiInit ==
  /\ cached_client = "None"
  /\ apc = "idle"
  /\ api_op = "None"
  /\ did_login = FALSE
  /\ was_cached = FALSE
  /\ login_ok = FALSE
  /\ api_requests = <<>>
  /\ api_outcome = "None"
  /\ item \in {AbsentServerItem, FreshServerItem}
  /\ history = <<>>
  /\ last_two = <<>>

\* A client is built, and logs in, on every access.
NeedsLoginAlways(cached) == TRUE

\* get_zabbix_client line 23: if _zabbix_client is None
NeedsLogin(cached) == cached = "None"

\* An endpoint calls get_zabbix_client() and then one control-plane call.
\* ok is the outcome of zapi.login when a client has to be built: on
\* failure _initialize_connection re-raises and nothing is assigned.
GetZabbixClient(op, ok) ==
  /\ apc = "idle"
  /\ api_op' = op
  /\ api_requests' = <<>>
  /\ last_two' = <<>>
  /\ was_cached' = (cached_client # "None")
  /\ IF NeedsLogin(cached_client)
     THEN /\ did_login' = TRUE
          /\ login_ok' = ok
          /\ cached_client' = IF ok THEN "client" ELSE cached_client
          /\ apc' = IF ok THEN "call" ELSE "idle"
          /\ api_outcome' = IF ok THEN "None" ELSE "raised"
     ELSE /\ did_login' = FALSE
          /\ login_ok' = FALSE
          /\ cached_client' = cached_client
          /\ apc' = "call"
          /\ api_outcome' = "None"
  /\ UNCHANGED <<item, history>>
  /\ UNCHANGED exceptApi

AccessLogsIn ==
  /\ cached_client = "None"
  /\ \E op \in ControlCalls : GetZabbixClient(op, TRUE)

AccessLoginFails ==
  /\ cached_client = "None"
  /\ \E op \in ControlCalls : GetZabbixClient(op, FALSE)

AccessReusesClient ==
  /\ cached_client # "None"
  /\ \E op \in ControlCalls : GetZabbixClient(op, TRUE)

\* The call returns; what it returned is in api_outcome / last_two.
CallReturns(requests, outcome) ==
  /\ apc' = "idle"
  /\ api_requests' = requests
  /\ api_outcome' = outcome
  /\ UNCHANGED <<cached_client, api_op, did_login, was_cached, login_ok>>
  /\ UNCHANGED exceptApi

\* item_exists, lines 245-256
ItemExistsCall ==
  /\ apc = "call" /\ api_op = "item_exists"
  /\ \E api_ok \in BOOLEAN :
       CallReturns(<<"item.get">>,
                   IF api_ok /\ item.exists THEN "True" ELSE "False")
  /\ UNCHANGED <<item, history, last_two>>

\* create_item, lines 293-340
CreateItemCall ==
  /\ apc = "call" /\ api_op = "create_item"
  /\ \E api_ok \in BOOLEAN :
       /\ item' = IF api_ok /\ ~item.exists THEN FreshServerItem ELSE item
       /\ CallReturns(<<"host.get", "item.create">>,
                      IF api_ok /\ ~item.exists THEN "True" ELSE "False")
  /\ UNCHANGED <<history, last_two>>

\* get_last_value, lines 342-357
GetLastValueCall ==
  /\ apc = "call" /\ api_op = "get_last_value"
  /\ \E api_ok \in BOOLEAN :
       CallReturns(<<"item.get">>,
                   IF api_ok /\ item.exists /\ ~IsNone(item.lastvalue)
                   THEN "value" ELSE "None")
  /\ UNCHANGED <<item, history, last_two>>

\* get_last_two_values, lines 359-386: the queries are answered
GetLastTwoValuesCall ==
  /\ apc = "call" /\ api_op = "get_last_two_values"
  /\ last_two' = LastTwoValues(item, history)
  /\ CallReturns(IF item.exists THEN <<"item.get", "history.get">>
                 ELSE <<"item.get">>, "returned")
  /\ UNCHANGED <<item, history>>

\* get_last_two_values, lines 388-390: a query raises
GetLastTwoValuesFails ==
  /\ apc = "call" /\ api_op = "get_last_two_values"
  /\ last_two' = <<NoValue, NoValue>>
  /\ CallReturns(<<"item.get">>, "query_failed")
  /\ UNCHANGED <<item, history>>

\* The server stores a value sent to the trapper item: a new history row,
\* and the cached last value moves to the previous value.
TrapperStores ==
  /\ apc = "idle"
  /\ item.exists
  /\ Len(history) < MaxRows
  /\ \E v \in TextValues :
       /\ history' = Append(history, v)
       /\ item' = [item EXCEPT !.lastvalue = Some(ParseInt(v)),
                               !.prevvalue = item.lastvalue]
  /\ api_outcome' = "None"
  /\ last_two' = <<>>
  /\ UNCHANGED <<cached_client, apc, api_op, did_login, was_cached, login_ok,
                 api_requests>>
  /\ UNCHANGED exceptApi

\* The server's housekeeper removes the history rows past their retention
\* ('history': '7d'); the item keeps its cached values.
HousekeeperPurges ==
  /\ apc = "idle"
  /\ history # <<>>
  /\ history' = <<>>
  /\ api_outcome' = "None"
  /\ last_two' = <<>>
  /\ UNCHANGED <<cached_client, apc, api_op, did_login, was_cached, login_ok,
                 api_requests, item>>
  /\ UNCHANGED exceptApi

ApiNext ==
  \/ AccessLogsIn
  \/ AccessLoginFails
  \/ AccessReusesClient
  \/ ItemExistsCall
  \/ CreateItemCall
  \/ GetLastValueCall
  \/ GetLastTwoValuesCall
  \/ GetLastTwoValuesFails
  \/ TrapperStores
  \/ HousekeeperPurges

ApiSpecInit ==
  BrokerUnused /\ RuleUnused /\ MonitorUnused /\ SenderUnused /\ PacketUnused
    /\ LateUnused /\ ApiInit

ApiSpec == ApiSpecInit /\ [][ApiNext]_vars

\* ----------------------------------------------------------------------
\* Properties of the control plane
\* ----------------------------------------------------------------------
AccessMade == api_op # "None"
\* The access found no client and its login failed.
LoginFailed == AccessMade /\ ~was_cached /\ did_login /\ ~login_ok

\* C18: with no token held and a failing login, a control-plane call
\* returns the error "Not authenticated" (or its empty / none result) and
\* issues no API request.
C18_FailedLoginShortCircuitsCalls ==
  (LoginFailed /\ apc = "idle" /\ api_outcome # "None") =>
    /\ api_outcome \in {"Not authenticated", "False", "None", "query_failed"}
    /\ api_requests = <<>>

\* C19: an access logs in exactly when no client (token) is cached; after
\* a successful login the client is cached and later accesses reuse it
\* without a login; after a failed login nothing is cached, so the next
\* access logs in again.
C19_LoginIffNothingCached ==
  AccessMade =>
    /\ did_login <=> ~was_cached
    /\ (did_login /\ login_ok) => cached_client = "client"
    /\ (did_login /\ ~login_ok) => cached_client = "None"
    /\ was_cached => cached_client = "client"

\* C19 witness: an access has reused the cached client and issued its
\* request without a login.
C19_Witness ==
  /\ AccessMade /\ was_cached /\ ~did_login
  /\ apc = "idle" /\ api_requests # <<>>

\* C20: get_last_two_values returns (newest, second newest) of the two most
\* recent history rows; for an item without history rows it returns the
\* item's cached last and previous value; for a missing item or a failed
\* query it returns (None, None).
C20_LastTwoValuesWithFallback ==
  (apc = "idle" /\ api_op = "get_last_two_values"
     /\ api_outcome \in {"returned", "query_failed"}) =>
    last_two =
      IF api_outcome = "query_failed" \/ ~item.exists THEN <<NoValue, NoValue>>
      ELSE IF Len(history) >= 2
           THEN <<Some(ParseInt(history[Len(history)])),
                  Some(ParseInt(history[Len(history) - 1]))>>
      ELSE IF Len(history) = 1
           THEN <<Some(ParseInt(history[1])), NoValue>>
      ELSE <<item.lastvalue, item.prevvalue>>

\* ======================================================================
\* Part 7: the methods of RabbitMQClient that wrap _make_request
\*         (app/core/rabbitmq.py: check_node_health, get_cluster_status,
\*         get_queues, get_vhosts, get_queues_in_vhost,
\*         get_messages_ready_count, get_queue_message_count) and the
\*         endpoint get_queue_details, which builds its own path.
\*         The request itself is the failover loop of Part 1.  ClientSpec.
\* ======================================================================

\* queues in one listing response
MaxListed == 2

\* cluster configurations: one node, two nodes, one hostname listed twice
ClientNodeLists == {<<"a">>, <<"a", "b">>, <<"a", "a">>}
\* node arguments of the per-node methods
HealthNodes == {"a", "b", UnknownHost}

\* vhost and queue names, as sequences of characters
VhostNames == {<<"/">>, <<"a">>, <<"a", "/", "b">>}
QueueNameChoices == {<<"c">>, <<"b", "/", "c">>, <<"q", "?">>}
ListedNames == {<<"c">>, <<"b", "/", "c">>}
NoName == <<>>

\* urllib.parse.quote never escapes letters, digits and "_.-~"
Unreserved ==
  {c \in Range(AsciiChars) :
     Ord(c) \in (48..57) \cup (65..90) \cup (97..122)} \cup {"_", ".", "-", "~"}

UpperHexDigits == <<"0", "1", "2", "3", "4", "5", "6", "7", "8", "9",
                    "A", "B", "C", "D", "E", "F">>

\* quote(c, safe='') of one character
QuoteChar(c) ==
  IF c \in Unreserved THEN <<c>>
  ELSE <<"%", UpperHexDigits[(Ord(c) \div 16) + 1],
         UpperHexDigits[(Ord(c) % 16) + 1]>>

RECURSIVE Quote(_)
\* quote(s, safe='')
Quote(s) == IF s = <<>> THEN <<>> ELSE QuoteChar(Head(s)) \o Quote(Tail(s))

RECURSIVE ReplaceSlash(_)
\* s.replace('/', '%2F')
ReplaceSlash(s) ==
  IF s = <<>> THEN <<>>
  ELSE (IF Head(s) = "/" THEN <<"%", "2", "F">> ELSE <<Head(s)>>)
         \o ReplaceSlash(Tail(s))

QueuesPath == <<"q", "u", "e", "u", "e", "s">>
VhostsPath == <<"v", "h", "o", "s", "t", "s">>
ClusterNamePath == <<"c", "l", "u", "s", "t", "e", "r", "-", "n", "a", "m", "e">>
HealthPath == <<"h", "e", "a", "l", "t", "h", "c", "h", "e", "c", "k", "s",
                "/", "n", "o", "d", "e">>

\* f"queues/{encoded_vhost}"
VhostPath(ev) == QueuesPath \o <<"/">> \o ev
\* f"queues/{encoded_vhost}/{encoded_queue}"
QueuePath(ev, eq) == QueuesPath \o <<"/">> \o ev \o <<"/">> \o eq

\* The path each method hands to _make_request.
BuildPath(m, v, q) ==
  CASE m = "check_node_health" -> HealthPath
    [] m = "get_cluster_status" -> ClusterNamePath
    [] m = "get_vhosts" -> VhostsPath
    [] m \in {"get_queues", "get_queues_in_vhost"} ->
         IF v # NoName THEN VhostPath(Quote(v)) ELSE QueuesPath
    [] m = "get_messages_ready_count" ->
         IF v # NoName /\ q # NoName THEN QueuePath(Quote(v), Quote(q))
         ELSE IF v # NoName THEN VhostPath(Quote(v))
         ELSE QueuesPath
    [] m = "get_queue_message_count" -> QueuePath(Quote(v), Quote(q))
    [] m = "get_queue_details" -> QueuePath(ReplaceSlash(v), ReplaceSlash(q))

\* f"{vhost}/{queue}": the key of get_messages_ready_count's result
QueueKey(v, q) == v \o <<"/">> \o q

\* Queue objects of the management API.  messages_ready and messages are
\* optional keys of an object.
QueueObject(v, q, ready, msgs) ==
  [vhost |-> v, name |-> q, messages_ready |-> ready, messages |-> msgs]

ReadyChoices == {NoValue, Some(4)}

ListedObjects ==
  {QueueObject(v, q, r, Some(7)) :
     v \in VhostNames, q \in ListedNames, r \in ReadyChoices}

\* A listing names every queue once.
Listings(objects) ==
  {l \in UNION {[1..n -> objects] : n \in 0..MaxListed} :
     \A i, j \in 1..Len(l) :
       i # j => <<l[i].vhost, l[i].name>> # <<l[j].vhost, l[j].name>>}

\* What a node that answers 2xx can have sent for the path of the call.
BodiesFor(m, v, q) ==
  CASE m \in {"check_node_health", "get_cluster_status", "get_vhosts"} ->
         {<<"ok">>}
    [] m \in {"get_queues", "get_queues_in_vhost"} ->
         IF v # NoName
         THEN Listings({o \in ListedObjects : o.vhost = v})
         ELSE Listings(ListedObjects)
    [] m = "get_messages_ready_count" ->
         IF v # NoName /\ q # NoName
         THEN {<<QueueObject(v, q, r, Some(7))>> : r \in ReadyChoices}
         ELSE IF v # NoName
         THEN Listings({o \in ListedObjects : o.vhost = v})
         ELSE Listings(ListedObjects)
    [] m = "get_queue_message_count" ->
         {<<QueueObject(v, q, Some(4), c)>> : c \in {NoValue, Some(7)}}
    [] m = "get_queue_details" ->
         {<<>>, <<QueueObject(v, q, Some(4), Some(7))>>}

\* result[key] = value on a dict
DictPut(d, k, val) ==
  [x \in (DOMAIN d) \cup {k} |-> IF x = k THEN val ELSE d[x]]

EmptyDict == [x \in {} |-> 0]

RECURSIVE CollectReady(_, _, _)
\* for q in queues: if 'messages_ready' in q: result[key] = q[...]
\* over the first n objects; in the whole-cluster mode the vhost of the key
\* is the object's own.
CollectReady(body, n, v) ==
  IF n = 0 THEN EmptyDict
  ELSE LET d == CollectReady(body, n - 1, v)
           o == body[n]
           vhost_name == IF v # NoName THEN v ELSE o.vhost
       IN  IF IsNone(o.messages_ready) THEN d
           ELSE DictPut(d, QueueKey(vhost_name, o.name),
                        ValueOf(o.messages_ready))

\* get_messages_ready_count: the three modes
ReadyCounts(v, q, body) ==
  IF v # NoName /\ q # NoName
  THEN IF body # <<>> /\ ~IsNone(body[1].messages_ready)
       THEN DictPut(EmptyDict, QueueKey(v, q), ValueOf(body[1].messages_ready))
       ELSE EmptyDict
  ELSE CollectReady(body, Len(body), IF v # NoName THEN v ELSE NoName)

Returned(kind, value) == [kind |-> kind, value |-> value]

\* What each method returns when _make_request handed back this body.
MethodValue(m, v, q, body) ==
  CASE m = "check_node_health" -> Returned("bool", TRUE)
    [] m = "get_cluster_status" -> Returned("body", body)
    [] m \in {"get_vhosts", "get_queues", "get_queues_in_vhost"} ->
         Returned("list", body)
    [] m = "get_messages_ready_count" ->
         Returned("dict", ReadyCounts(v, q, body))
    [] m = "get_queue_message_count" ->
         Returned("count", IF body # <<>> THEN body[1].messages ELSE NoValue)
    [] m = "get_queue_details" ->
         Returned("http", IF body = <<>> THEN 404 ELSE 200)

\* An except branch that lets the exception go on.
OnRequestExceptionPropagates(m) == Returned("raised", <<>>)

\* The except Exception branch of each method.
OnRequestException(m) ==
  CASE m = "check_node_health" -> Returned("bool", FALSE)
    [] m = "get_cluster_status" -> Returned("body", <<>>)
    [] m \in {"get_vhosts", "get_queues", "get_queues_in_vhost"} ->
         Returned("list", <<>>)
    [] m = "get_messages_ready_count" -> Returned("dict", EmptyDict)
    [] m = "get_queue_message_count" -> Returned("count", NoValue)
    [] m = "get_queue_details" -> Returned("http", 500)

ClientInit ==
  /\ nodes \in ClientNodeLists
  /\ current_node_index = 0
  /\ pc = "idle"
  /\ node = None
  /\ tried_nodes = {}
  /\ errors = <<>>
  /\ http = <<>>
  /\ attempted = <<>>
  /\ result = None
  /\ cursor0 = 0
  /\ selLog = <<>>
  /\ selections = 0
  /\ cpc = "idle"
  /\ method = "None"
  /\ arg_vhost = NoName
  /\ arg_queue = NoName
  /\ path = <<>>
  /\ response = <<>>
  /\ ret = <<>>

\* entry of _make_request, as in MakeRequest
BeginRequest(n) ==
  /\ node' = n
  /\ tried_nodes' = {}
  /\ errors' = <<>>
  /\ http' = <<>>
  /\ attempted' = <<>>
  /\ result' = None
  /\ cursor0' = current_node_index
  /\ pc' = IF n # None THEN "preferred" ELSE "loop"
  /\ selections' = 0
  /\ UNCHANGED <<nodes, current_node_index, selLog>>

exceptClient == <<earlyVars, registryVars, cycleVars, serviceVars, keyVars>>

\* A method is called: it builds its path and enters _make_request.
MethodCall(m, n, v, q) ==
  /\ cpc \in {"idle", "done"}
  /\ cpc' = "requesting"
  /\ method' = m
  /\ arg_vhost' = v
  /\ arg_queue' = q
  /\ path' = BuildPath(m, v, q)
  /\ response' = <<>>
  /\ ret' = <<>>
  /\ BeginRequest(n)
  /\ UNCHANGED exceptClient

CallNodeMethod ==
  \/ \E n \in HealthNodes : MethodCall("check_node_health", n, NoName, NoName)
  \/ \E n \in HealthNodes, v \in VhostNames, q \in QueueNameChoices :
       MethodCall("get_queue_message_count", n, v, q)

CallListing ==
  \/ \E m \in {"get_cluster_status", "get_vhosts"} :
       MethodCall(m, None, NoName, NoName)
  \/ \E m \in {"get_queues", "get_queues_in_vhost"},
        v \in VhostNames \cup {NoName} :
       MethodCall(m, None, v, NoName)
  \/ \E v \in VhostNames \cup {NoName}, q \in QueueNameChoices \cup {NoName} :
       MethodCall("get_messages_ready_count", None, v, q)

\* get_queue_details asks the primary node of the cluster's client.
CallQueueDetails ==
  \E v \in VhostNames, q \in QueueNameChoices :
    MethodCall("get_queue_details", nodes[1], v, q)

\* _make_request returned a decoded body: the method's try block finishes.
MethodReturns ==
  /\ cpc = "requesting"
  /\ pc = "returned"
  /\ \E body \in BodiesFor(method, arg_vhost, arg_queue) :
       /\ response' = body
       /\ ret' = MethodValue(method, arg_vhost, arg_queue, body)
  /\ cpc' = "done"
  /\ UNCHANGED <<method, arg_vhost, arg_queue, path>>
  /\ UNCHANGED brokerVars
  /\ UNCHANGED exceptClient

\* _make_request raised: the method's except Exception branch runs.
MethodCatches ==
  /\ cpc = "requesting"
  /\ pc = "raised"
  /\ ret' = OnRequestException(method)
  /\ cpc' = "done"
  /\ UNCHANGED <<method, arg_vhost, arg_queue, path, response>>
  /\ UNCHANGED brokerVars
  /\ UNCHANGED exceptClient

ClientNext ==
  \/ CallNodeMethod
  \/ CallListing
  \/ CallQueueDetails
  \/ PreferredUnknown
  \/ PreferredSucceeds
  \/ PreferredFails
  \/ LoopSkip
  \/ LoopSucceeds
  \/ LoopFails
  \/ RaiseAllUnavailable
  \/ MethodReturns
  \/ MethodCatches

ClientSpecInit ==
  EarlyUnused /\ RegistryUnused /\ CycleUnused /\ ServiceUnused
    /\ KeyUnused /\ ClientInit

ClientSpec == ClientSpecInit /\ [][ClientNext]_vars

\* ----------------------------------------------------------------------
\* Properties of the client methods
\* ----------------------------------------------------------------------
MethodDone(m) == cpc = "done" /\ method = m

\* every listed queue carries the messages_ready key
AllReportReady ==
  \A i \in 1..Len(response) : ~IsNone(response[i].messages_ready)

\* C21: get_messages_ready_count(vhost, queue) with both arguments returns
\* exactly one entry keyed "vhost/queue"; with only vhost one entry per
\* queue of that vhost; with neither one entry per queue of the cluster;
\* every key has the form "vhost/queue".  Stated for a request that was
\* answered with queues that all report messages_ready.
C21_ReadyCountOneEntryPerQueue ==
  (MethodDone("get_messages_ready_count") /\ pc = "returned" /\ AllReportReady)
    => LET keys == DOMAIN ret.value
       IN  /\ (arg_vhost # NoName /\ arg_queue # NoName)
                => keys = {QueueKey(arg_vhost, arg_queue)}
           /\ (arg_vhost # NoName /\ arg_queue = NoName)
                => Cardinality(keys) = Len(response)
           /\ (arg_vhost = NoName /\ arg_queue = NoName)
                => Cardinality(keys) = Len(response)
           /\ keys \subseteq
                {QueueKey(response[i].vhost, response[i].name) :
                   i \in 1..Len(response)}

BulkListing == {"get_queues", "get_queues_in_vhost", "get_vhosts",
                "get_messages_ready_count", "get_cluster_status"}

NamedAttemptFailed ==
  \E i \in 1..Len(errors) : errors[i].specified /\ errors[i].node = node

\* C23: check_node_health never propagates an exception, and any failure
\* of the probe (connection error, bad status, unknown node, all nodes
\* unavailable) yields False.
C23_HealthProbeFailureIsFalse ==
  MethodDone("check_node_health")
    => /\ ret.kind = "bool"
       /\ (NamedAttemptFailed \/ pc = "raised") => ret.value = FALSE

\* C30: check_node_health(node) is True only if the named node itself
\* answered the probe.
C30_HealthTrueOnlyIfNamedNodeAnswered ==
  (MethodDone("check_node_health") /\ ret.kind = "bool" /\ ret.value = TRUE)
    => result = node

RECURSIVE SplitPath(_)
\* the segments of a path, split at every "/"
SplitPath(s) ==
  LET at == {i \in 1..Len(s) : s[i] = "/"}
  IN  IF at = {} THEN <<s>>
      ELSE <<SubSeq(s, 1, SetMin(at) - 1)>>
             \o SplitPath(SubSeq(s, SetMin(at) + 1, Len(s)))

UpperHexValue(c) ==
  (CHOOSE i \in 1..Len(UpperHexDigits) : UpperHexDigits[i] = c) - 1

\* a segment holds unreserved characters and %XX escapes only
WellEscaped(s) ==
  \A i \in 1..Len(s) :
    \/ s[i] \in Unreserved
    \/ /\ s[i] = "%"
       /\ i + 2 <= Len(s)
       /\ s[i + 1] \in Range(UpperHexDigits)
       /\ s[i + 2] \in Range(UpperHexDigits)

RECURSIVE Unquote(_)
\* the name a well-escaped segment stands for
Unquote(s) ==
  IF s = <<>> THEN <<>>
  ELSE IF s[1] = "%" /\ Len(s) >= 3
       THEN <<Chr(16 * UpperHexValue(s[2]) + UpperHexValue(s[3]))>>
              \o Unquote(SubSeq(s, 4, Len(s)))
       ELSE <<s[1]>> \o Unquote(Tail(s))

\* the names a call puts into its path
NamesInPath ==
  CASE method \in {"get_queue_message_count", "get_queue_details"} ->
         <<arg_vhost, arg_queue>>
    [] method = "get_messages_ready_count" /\ arg_vhost # NoName
         /\ arg_queue # NoName -> <<arg_vhost, arg_queue>>
    [] method \in {"get_queues", "get_queues_in_vhost",
                   "get_messages_ready_count"} /\ arg_vhost # NoName
         /\ ~(method = "get_messages_ready_count" /\ arg_queue # NoName) ->
         <<arg_vhost>>
    [] OTHER -> <<>>

\* C24: in every path built from a vhost and/or a queue name each of these
\* segments is percent-encoded, no character of a name is left as a path
\* separator ("/" is %2F) and every other reserved character is escaped too.
C24_PathSegmentsPercentEncoded ==
  (cpc \in {"requesting", "done"} /\ NamesInPath # <<>>)
    => LET segs == SplitPath(path)
       IN  /\ Len(segs) = 1 + Len(NamesInPath)
           /\ \A k \in 1..Len(NamesInPath) :
                /\ WellEscaped(segs[k + 1])
                /\ Unquote(segs[k + 1]) = NamesInPath[k]

\* ======================================================================
\* Part 8: the client registry of the RabbitMQ endpoints
\*         (app/api/endpoints/rabbitmq.py: _clients, get_client_for_cluster,
\*         get_client_for_node).  RegistrySpec.
\* ======================================================================

\* clusters in the configuration
MaxClusters == 2

ClusterIds == {"c1", "c2"}
\* a cluster id and a hostname that the configuration does not hold
AbsentCluster == "c9"
AbsentNode == "x"

\* The node lists a configured cluster can have; RabbitMQClient.__init__
\* rejects the empty one.
ConfiguredNodes == {<<>>, <<"a">>, <<"a", "b">>}

ClusterConfigs ==
  {[id |-> c, nodes |-> ns] : c \in ClusterIds, ns \in ConfiguredNodes}

Configurations ==
  UNION {[1..n -> ClusterConfigs] : n \in 1..MaxClusters}

EmptyRegistry == [c \in {} |-> 0]

RegistryInit ==
  /\ clusters \in Configurations
  /\ registry = EmptyRegistry
  /\ constructed = <<>>
  /\ rpc = "idle"
  /\ reg_key = <<>>
  /\ reg_outcome = <<>>
  /\ reg_made = 0
  /\ handed = [c \in ClusterIds \cup {AbsentCluster} |-> {}]

\* A registry that is never consulted.
CachedNever(reg, cluster_id) == FALSE

\* cluster_id in _clients
Cached(reg, cluster_id) == cluster_id \in DOMAIN reg

\* for cluster in clusters: if cluster.get('id') == cluster_id (first match)
ClustersWithId(cluster_id) ==
  {i \in 1..Len(clusters) : clusters[i].id = cluster_id}

\* for cluster ... for node ...: if node.get('hostname') == node_hostname
ClustersWithNode(hostname) ==
  {i \in 1..Len(clusters) : hostname \in Range(clusters[i].nodes)}

\* RabbitMQClient(cluster) raises ValueError when the cluster lists no node
Constructible(cluster) == cluster.nodes # <<>>

Client(serial) == [kind |-> "client", serial |-> serial]
ConfigError == [kind |-> "ValueError", serial |-> 0]

\* Hand back the client of cluster_id, building it from this cluster entry
\* when the registry has none.
LookUp(cluster_id, cluster) ==
  IF Cached(registry, cluster_id)
  THEN /\ reg_outcome' = Client(registry[cluster_id])
       /\ handed' = [handed EXCEPT ![cluster_id] = @ \cup {registry[cluster_id]}]
       /\ reg_made' = 0
       /\ UNCHANGED <<registry, constructed>>
  ELSE IF Constructible(cluster)
  THEN LET serial == Len(constructed) + 1
       IN  /\ constructed' = Append(constructed, cluster_id)
           /\ registry' = DictPut(registry, cluster_id, serial)
           /\ reg_outcome' = Client(serial)
           /\ handed' = [handed EXCEPT ![cluster_id] = @ \cup {serial}]
           /\ reg_made' = 1
  ELSE /\ reg_outcome' = ConfigError
       /\ reg_made' = 0
       /\ UNCHANGED <<registry, constructed, handed>>

\* no matching cluster: raise ValueError
NotConfigured ==
  /\ reg_outcome' = ConfigError
  /\ reg_made' = 0
  /\ UNCHANGED <<registry, constructed, handed>>

exceptRegistry ==
  <<brokerVars, earlyVars, clientVars, cycleVars, serviceVars, keyVars>>

\* get_client_for_cluster(cluster_id)
GetClientForCluster(cluster_id) ==
  /\ rpc \in {"idle", "done"}
  /\ rpc' = "done"
  /\ reg_key' = <<"cluster", cluster_id>>
  /\ IF Cached(registry, cluster_id)
     THEN LookUp(cluster_id, <<>>)
     ELSE IF ClustersWithId(cluster_id) # {}
     THEN LookUp(cluster_id, clusters[SetMin(ClustersWithId(cluster_id))])
     ELSE NotConfigured
  /\ UNCHANGED clusters
  /\ UNCHANGED exceptRegistry

\* get_client_for_node(node_hostname)
GetClientForNode(hostname) ==
  /\ rpc \in {"idle", "done"}
  /\ rpc' = "done"
  /\ reg_key' = <<"node", hostname>>
  /\ IF ClustersWithNode(hostname) # {}
     THEN LET cluster == clusters[SetMin(ClustersWithNode(hostname))]
          IN  LookUp(cluster.id, cluster)
     ELSE NotConfigured
  /\ UNCHANGED clusters
  /\ UNCHANGED exceptRegistry

RequestForCluster ==
  \E c \in ClusterIds \cup {AbsentCluster} : GetClientForCluster(c)

RequestForNode ==
  \E h \in {"a", "b", AbsentNode} : GetClientForNode(h)

RegistryNext == RequestForCluster \/ RequestForNode

RegistrySpecInit ==
  BrokerUnused /\ EarlyUnused /\ ClientUnused /\ CycleUnused
    /\ ServiceUnused /\ KeyUnused /\ RegistryInit

RegistrySpec == RegistrySpecInit /\ [][RegistryNext]_vars

\* the configuration holds what the lookup asked for
KeyConfigured ==
  IF reg_key[1] = "cluster"
  THEN ClustersWithId(reg_key[2]) # {}
  ELSE ClustersWithNode(reg_key[2]) # {}

MaxCycleQueues == 2

\* A watch-list entry is complete or lacks one of its four fields.
CycleWatchLists ==
  UNION {[1..n -> {"complete", "incomplete"}] : n \in 0..MaxCycleQueues}

\* A key of the messages-ready listing: "cluster:vhost/queue" of a cluster
\* with a Zabbix host, of a cluster without one, a key without ":", or a
\* key without "/" after the cluster id.
QueueDataKeys == {"hosted", "unhosted", "no_colon", "no_slash"}
QueueData == UNION {[1..n -> QueueDataKeys] : n \in 0..MaxCycleQueues}

ErrorResponse == [status |-> 500, success |-> FALSE]
OkResponse == [status |-> 200, success |-> TRUE]

CycleInit ==
  /\ cyc = "idle"
  /\ cycle_kind = "None"
  /\ cycle_input = <<>>
  /\ cyc_i = 0
  /\ cycle_reads = <<>>
  /\ cycle_sends = <<>>
  /\ cycle_results = <<>>
  /\ cycle_response = <<>>
  /\ script_result = "None"

exceptCycle ==
  <<brokerVars, earlyVars, clientVars, registryVars, serviceVars, keyVars>>

\* update_queue_metrics reads data.get('send_emails', True) in its first
\* statement; data is assigned by the statement after it, so the read
\* raises UnboundLocalError.
DataBoundAtFirstRead == FALSE

CycleStarts(kind, given) ==
  /\ cyc \in {"idle", "done"}
  /\ cycle_kind' = kind
  /\ cycle_input' = given
  /\ cycle_reads' = <<>>
  /\ cycle_sends' = <<>>
  /\ cycle_results' = <<>>
  /\ script_result' = "None"

\* update_queue_metrics: the first statement raises, the outer except
\* answers {"error": ...}, 500.
UpdateQueueMetrics ==
  \E wl \in CycleWatchLists :
    /\ CycleStarts("watch_list", wl)
    /\ ~DataBoundAtFirstRead
    /\ cycle_response' = ErrorResponse
    /\ cyc' = "done"
    /\ cyc_i' = 0
    /\ UNCHANGED exceptCycle

\* update_metrics of the cron script: True only for status 200
UpdateMetrics ==
  /\ cyc = "done"
  /\ cycle_kind = "watch_list"
  /\ script_result = "None"
  /\ script_result' = IF cycle_response.status = 200 THEN "True" ELSE "False"
  /\ UNCHANGED <<cyc, cycle_kind, cycle_input, cyc_i, cycle_reads, cycle_sends,
                 cycle_results, cycle_response>>
  /\ UNCHANGED exceptCycle

\* update_queue_sizes: the listing cannot be fetched, or it is empty
UpdateQueueSizesFails ==
  /\ CycleStarts("sizes", <<>>)
  /\ cycle_response' = ErrorResponse
  /\ cyc' = "done"
  /\ cyc_i' = 0
  /\ UNCHANGED exceptCycle

\* update_queue_sizes: the listing holds queue_data; the loop begins
UpdateQueueSizes ==
  \E qd \in QueueData \ {<<>>} :
    /\ CycleStarts("sizes", qd)
    /\ cycle_response' = <<>>
    /\ cyc' = "loop"
    /\ cyc_i' = 1
    /\ UNCHANGED exceptCycle

InSizesLoop == cyc = "loop" /\ cyc_i <= Len(cycle_input)

SizesStep(entries, sends) ==
  /\ cycle_reads' = Append(cycle_reads, cyc_i)
  /\ cycle_results' = cycle_results \o entries
  /\ cycle_sends' = cycle_sends \o sends
  /\ cyc_i' = cyc_i + 1
  /\ UNCHANGED <<cyc, cycle_kind, cycle_input, cycle_response, script_result>>
  /\ UNCHANGED exceptCycle

\* the key does not parse, or its cluster has no Zabbix host: continue
SizesSkip ==
  /\ InSizesLoop
  /\ cycle_input[cyc_i] \in {"no_colon", "no_slash", "unhosted"}
  /\ SizesStep(<<>>, <<>>)

\* send_value answers; the entry carries "success" or "failed"
SizesSend ==
  /\ InSizesLoop
  /\ cycle_input[cyc_i] = "hosted"
  /\ \E ok \in BOOLEAN :
       SizesStep(<<[queue |-> cyc_i,
                    status |-> IF ok THEN "success" ELSE "failed"]>>,
                 <<[queue |-> cyc_i, ok |-> ok]>>)

\* item_exists or create_item raises: the entry carries "error"
SizesError ==
  /\ InSizesLoop
  /\ cycle_input[cyc_i] = "hosted"
  /\ SizesStep(<<[queue |-> cyc_i, status |-> "error"]>>, <<>>)

\* after the loop: {"success": True, "updated_count": .., "results": ..}
SizesReturn ==
  /\ cyc = "loop"
  /\ cyc_i > Len(cycle_input)
  /\ cycle_response' = OkResponse
  /\ cyc' = "done"
  /\ UNCHANGED <<cycle_kind, cycle_input, cyc_i, cycle_reads, cycle_sends,
                 cycle_results, script_result>>
  /\ UNCHANGED exceptCycle

CycleNext ==
  \/ UpdateQueueMetrics
  \/ UpdateMetrics
  \/ UpdateQueueSizesFails
  \/ UpdateQueueSizes
  \/ SizesSkip
  \/ SizesSend
  \/ SizesError
  \/ SizesReturn

CycleSpecInit ==
  BrokerUnused /\ EarlyUnused /\ ClientUnused /\ RegistryUnused
    /\ ServiceUnused /\ KeyUnused /\ CycleInit

CycleSpec == CycleSpecInit /\ [][CycleNext]_vars

\* C26: a collection cycle over the watch-list returns an overall success
\* flag with exactly one result entry per monitored queue whose count was
\* read, each carrying that queue's own delivery status; a failed delivery
\* marks only its own entry and the cycle still reports success.
C26_CycleReportsPerQueueStatus ==
  (cyc = "done" /\ cycle_kind = "watch_list")
    => /\ cycle_response.status = 200
       /\ cycle_response.success
       /\ Len(cycle_results) = Len(cycle_reads)
       /\ \A k \in 1..Len(cycle_results) :
            /\ cycle_results[k].queue = cycle_reads[k]
            /\ \E j \in 1..Len(cycle_sends) :
                 /\ cycle_sends[j].queue = cycle_reads[k]
                 /\ cycle_results[k].status =
                      IF cycle_sends[j].ok THEN "success" ELSE "failed"

\* ======================================================================
\* Part 10: MonitoringService (app/core/monitoring.py):
\*          collect_queue_metrics, send_metrics_to_zabbix and
\*          run_monitoring_cycle over the watch-list;
\*          collect_all_queue_metrics and send_all_metrics_to_zabbix over
\*          every queue of every cluster.  The broker client's
\*          get_queue_info / get_all_queues answer with data or with an
\*          error value; ZabbixClient.send_values_to_zabbix is the batch
\*          send of the sender protocol.  ServiceSpec.
\* ======================================================================

\* a key that a configuration entry does not have
Missing == "missing"
\* Python truth of a configured string
Truthy(x) == x \notin {"", Missing}
\* dict.get(key, default)
GetOr(x, default) == IF x = Missing THEN default ELSE x

\* (vhost, queue) pairs of the brokers
ServiceQueues == {<<"a", "q1">>, <<"b", "q1">>}

\* Watch-list entries; "n9" is a node of no cluster.
ServiceEntries ==
  {[cluster_node |-> n, vhost |-> vq[1], queue |-> vq[2], zabbix_host |-> h] :
     n \in {"n1", "n9"}, vq \in ServiceQueues, h \in {"z2", "", Missing}}

ServiceWatchLists ==
  {<<e>> : e \in ServiceEntries} \cup
  {<<e1, e2>> : e1 \in ServiceEntries, e2 \in ServiceEntries}

ClusterEntry(id, n, enabled, host) ==
  [id |-> id, node |-> n, enabled |-> enabled, default_zabbix_host |-> host]

\* monitoring enabled with a default host, enabled without one, disabled
MonitoringChoices == {<<TRUE, "z1">>, <<TRUE, "">>, <<FALSE, "z1">>}

ServiceClusterLists ==
  {<<ClusterEntry("c1", "n1", k[1], k[2])>> : k \in MonitoringChoices} \cup
  {<<ClusterEntry("c1", "n1", k[1], k[2]), ClusterEntry("c2", "n2", j[1], j[2])>> :
     k \in MonitoringChoices, j \in MonitoringChoices}

\* monitoring_config.get('threshold', 1000)
ServiceThreshold == 1000

\* What the broker can report about a queue.
QueueInfos ==
  {[error |-> FALSE, messages |-> 5, consumers |-> 1, state |-> "running"],
   [error |-> FALSE, messages |-> 2000, consumers |-> 0, state |-> "idle"]}
ErrorInfo == [error |-> TRUE, messages |-> 0, consumers |-> 0, state |-> "unknown"]

\* What get_all_queues can answer for one cluster: {"error": ..} or a list.
ListedQueue(vq, info) ==
  [vhost |-> vq[1], name |-> vq[2], messages |-> info.messages,
   consumers |-> info.consumers, state |-> info.state]

ListingChoices ==
  {[error |-> TRUE, queues |-> <<>>], [error |-> FALSE, queues |-> <<>>]} \cup
  {[error |-> FALSE, queues |-> <<ListedQueue(vq, i)>>] :
     vq \in ServiceQueues, i \in QueueInfos} \cup
  {[error |-> FALSE,
    queues |-> <<ListedQueue(<<"a", "q1">>, i), ListedQueue(<<"b", "q1">>, j)>>] :
     i \in QueueInfos, j \in QueueInfos}

ServiceInit ==
  /\ svc_clusters \in ServiceClusterLists
  /\ svc_queues \in ServiceWatchLists
  /\ svc = "idle"
  /\ svc_op = "None"
  /\ svc_i = 0
  /\ lookups = <<>>
  /\ listings = <<>>
  /\ metrics = <<>>
  /\ batches = <<>>
  /\ tool_runs = <<>>
  /\ alerts = <<>>
  /\ sink_result = <<>>
  /\ svc_result = <<>>

exceptService ==
  <<brokerVars, earlyVars, clientVars, registryVars, cycleVars, keyVars>>

\* 1 if state == 'running' else 0
StateValue(state) == IF state = "running" THEN 1 ELSE 0

QueueInfoOf(v, q, info) ==
  [vhost |-> v, queue |-> q, messages |-> info.messages,
   consumers |-> info.consumers, state |-> info.state]

\* the entry appended by collect_queue_metrics
WatchMetric(e, info) ==
  [host |-> e.zabbix_host,
   origin |-> <<0, 0>>,
   metrics |-> <<[key |-> "queue.messages", value |-> info.messages],
                 [key |-> "queue.consumers", value |-> info.consumers],
                 [key |-> "queue.state", value |-> StateValue(info.state)]>>,
   queue_info |-> QueueInfoOf(e.vhost, e.queue, info)]

\* f'rabbitmq.test.queue.{kind}[{vhost},{queue_name}]'
AllQueuesKey(kind, v, q) ==
  "rabbitmq.test.queue." \o kind \o "[" \o v \o "," \o q \o "]"

\* the entry appended by collect_all_queue_metrics; origin (the cluster and
\* the position in its listing) is kept for the properties only
DiscoveredMetric(host, o, at) ==
  [host |-> host,
   origin |-> at,
   metrics |-> <<[key |-> AllQueuesKey("size", o.vhost, o.name),
                  value |-> o.messages],
                 [key |-> AllQueuesKey("consumers", o.vhost, o.name),
                  value |-> o.consumers],
                 [key |-> AllQueuesKey("state", o.vhost, o.name),
                  value |-> StateValue(o.state)]>>,
   queue_info |-> QueueInfoOf(o.vhost, o.name, o)]

\* all([cluster_node, vhost, queue_name, zabbix_host])
Complete(e) ==
  /\ Truthy(e.cluster_node)
  /\ Truthy(e.vhost)
  /\ Truthy(e.queue)
  /\ Truthy(e.zabbix_host)

\* get_node_from_queue_config: the clusters that list the entry's node
ClustersOfNode(e) ==
  {i \in 1..Len(svc_clusters) : svc_clusters[i].node = e.cluster_node}

\* the watch-list entries naming this (vhost, queue) pair
MatchingEntries(v, q) ==
  {k \in 1..Len(svc_queues) : svc_queues[k].vhost = v /\ svc_queues[k].queue = q}

\* A sink host taken from the cluster alone.
SinkHostDefaultOnly(default_host, v, q) == default_host

\* zabbix_host = default_zabbix_host; the first matching watch-list entry
\* replaces it by q_config.get('zabbix_host', zabbix_host)
SinkHost(default_host, v, q) ==
  IF MatchingEntries(v, q) = {} THEN default_host
  ELSE GetOr(svc_queues[SetMin(MatchingEntries(v, q))].zabbix_host, default_host)

RECURSIVE ClusterMetrics(_, _, _)
\* for queue_info in all_queues: the first n queues of cluster ci
ClusterMetrics(ci, listed, n) ==
  IF n = 0 THEN <<>>
  ELSE LET before == ClusterMetrics(ci, listed, n - 1)
           o == listed[n]
           host == SinkHost(svc_clusters[ci].default_zabbix_host, o.vhost, o.name)
       IN  IF ~Truthy(host) THEN before
           ELSE Append(before, DiscoveredMetric(host, o, <<ci, n>>))

RECURSIVE BatchPoints(_, _, _)
\* for metric in metrics: for key, value in metric['metrics'].items()
\* over the first n metrics; watch is TRUE for send_metrics_to_zabbix, which
\* prefixes the key with the queue
BatchPoints(ms, n, watch) ==
  IF n = 0 THEN <<>>
  ELSE LET m == ms[n]
           KeyOf(k) == IF watch
                       THEN "rabbitmq." \o m.queue_info.vhost \o "."
                              \o m.queue_info.queue \o "." \o k
                       ELSE k
       IN  BatchPoints(ms, n - 1, watch) \o
             [j \in 1..Len(m.metrics) |->
                [host |-> m.host, key |-> KeyOf(m.metrics[j].key),
                 value |-> m.metrics[j].value]]

\* if messages > self.threshold: alert_data.append(...)
AlertData(ms) ==
  SelectSeq([j \in 1..Len(ms) |-> ms[j].queue_info],
            LAMBDA qinfo : qinfo.messages > ServiceThreshold)

RECURSIVE PayloadFile(_, _)
\* the payload file of a batch: one line "host key value\n" per data point
PayloadFile(points, n) ==
  IF n = 0 THEN <<>>
  ELSE PayloadFile(points, n - 1) \o
         <<points[n].host, " ", points[n].key, " ",
           ToString(points[n].value), "\n">>

\* One run of the external tool per data point.
ToolRunsPerPoint(points) ==
  [j \in 1..Len(points) |-> PayloadFile(<<points[j]>>, 1)]

\* one run of the external tool with the payload file of the batch
ToolRuns(points) == <<PayloadFile(points, Len(points))>>

\* what the external tool can do for a batch
ToolOutcomesOfBatch == {"processed", "failed", "not_found"}

\* send_values_to_zabbix(data_points): the result and the tool runs
SendValuesToZabbix(points, tool) ==
  IF points = <<>>
  THEN [result |-> [success |-> TRUE, note |-> "No data points to send"],
        runs |-> <<>>]
  ELSE IF tool = "not_found"
  THEN [result |-> [success |-> FALSE, note |-> "zabbix_sender not found"],
        runs |-> <<>>]
  ELSE [result |-> [success |-> tool = "processed", note |-> tool],
        runs |-> ToolRuns(points)]

\* A cycle that reports success whatever the sink answered.
CycleSuccessAlways(res) == TRUE

\* result.get('success', False)
CycleSuccess(res) == res.success

ServiceCallStarts(op) ==
  /\ svc \in {"idle", "done"}
  /\ svc' = "collect"
  /\ svc_op' = op
  /\ svc_i' = 1
  /\ lookups' = <<>>
  /\ listings' = <<>>
  /\ metrics' = <<>>
  /\ batches' = <<>>
  /\ tool_runs' = <<>>
  /\ alerts' = <<>>
  /\ sink_result' = <<>>
  /\ svc_result' = <<>>
  /\ UNCHANGED <<svc_clusters, svc_queues>>
  /\ UNCHANGED exceptService

\* run_monitoring_cycle() begins with collect_queue_metrics()
RunMonitoringCycle == ServiceCallStarts("run_cycle")

\* send_all_metrics_to_zabbix() begins with collect_all_queue_metrics()
SendAllMetricsToZabbix == ServiceCallStarts("send_all")

Collecting(op, n) == svc = "collect" /\ svc_op = op /\ svc_i <= n

CollectStep(how, added) ==
  /\ lookups' = Append(lookups, how)
  /\ metrics' = metrics \o added
  /\ svc_i' = svc_i + 1
  /\ UNCHANGED <<svc_clusters, svc_queues, svc, svc_op, listings, batches,
                 tool_runs, alerts, sink_result, svc_result>>
  /\ UNCHANGED exceptService

\* if not all([...]): continue
CollectIncomplete ==
  /\ Collecting("run_cycle", Len(svc_queues))
  /\ ~Complete(svc_queues[svc_i])
  /\ CollectStep("incomplete", <<>>)

\* if not node_info: continue
CollectUnknownNode ==
  /\ Collecting("run_cycle", Len(svc_queues))
  /\ Complete(svc_queues[svc_i])
  /\ ClustersOfNode(svc_queues[svc_i]) = {}
  /\ CollectStep("unknown_node", <<>>)

\* get_queue_info answers; an error value skips the entry
CollectLookup ==
  /\ Collecting("run_cycle", Len(svc_queues))
  /\ Complete(svc_queues[svc_i])
  /\ ClustersOfNode(svc_queues[svc_i]) # {}
  /\ \E info \in QueueInfos \cup {ErrorInfo} :
       IF info.error THEN CollectStep("error", <<>>)
       ELSE CollectStep("ok", <<WatchMetric(svc_queues[svc_i], info)>>)

ListingStep(answer, added) ==
  /\ listings' = Append(listings, answer)
  /\ metrics' = metrics \o added
  /\ svc_i' = svc_i + 1
  /\ UNCHANGED <<svc_clusters, svc_queues, svc, svc_op, lookups, batches,
                 tool_runs, alerts, sink_result, svc_result>>
  /\ UNCHANGED exceptService

\* if not cluster.get('monitoring', {}).get('enabled', False): continue
CollectAllDisabled ==
  /\ Collecting("send_all", Len(svc_clusters))
  /\ ~svc_clusters[svc_i].enabled
  /\ ListingStep([error |-> FALSE, queues |-> <<>>], <<>>)

\* get_all_queues answers for the cluster; an error value skips it
CollectAllListing ==
  /\ Collecting("send_all", Len(svc_clusters))
  /\ svc_clusters[svc_i].enabled
  /\ \E l \in ListingChoices :
       ListingStep(l, IF l.error THEN <<>>
                      ELSE ClusterMetrics(svc_i, l.queues, Len(l.queues)))

CollectedAll ==
  /\ svc = "collect"
  /\ svc_i > (IF svc_op = "run_cycle" THEN Len(svc_queues) ELSE Len(svc_clusters))

SendStep(points, tool, outcome) ==
  /\ batches' = Append(batches, points)
  /\ tool_runs' = tool_runs \o SendValuesToZabbix(points, tool).runs
  /\ sink_result' = SendValuesToZabbix(points, tool).result
  /\ alerts' = AlertData(metrics)
  /\ svc_result' = outcome
  /\ svc' = "done"
  /\ UNCHANGED <<svc_clusters, svc_queues, svc_op, svc_i, lookups, listings,
                 metrics>>
  /\ UNCHANGED exceptService

\* send_metrics_to_zabbix(metrics) and the return of run_monitoring_cycle
SendMetricsToZabbix ==
  /\ CollectedAll
  /\ svc_op = "run_cycle"
  /\ \E tool \in ToolOutcomesOfBatch :
       LET points == BatchPoints(metrics, Len(metrics), TRUE)
       IN  SendStep(points, tool,
                    [metrics_collected |-> Len(metrics),
                     success |-> CycleSuccess(SendValuesToZabbix(points, tool).result)])

\* the second half of send_all_metrics_to_zabbix
SendAllMetricsReturn ==
  /\ CollectedAll
  /\ svc_op = "send_all"
  /\ \E tool \in ToolOutcomesOfBatch :
       LET points == BatchPoints(metrics, Len(metrics), FALSE)
       IN  SendStep(points, tool,
                    [metrics_collected |-> Len(metrics),
                     data_points_sent |-> Len(points),
                     success |-> CycleSuccess(SendValuesToZabbix(points, tool).result)])

ServiceNext ==
  \/ RunMonitoringCycle
  \/ SendAllMetricsToZabbix
  \/ CollectIncomplete
  \/ CollectUnknownNode
  \/ CollectLookup
  \/ CollectAllDisabled
  \/ CollectAllListing
  \/ SendMetricsToZabbix
  \/ SendAllMetricsReturn

ServiceSpecInit ==
  BrokerUnused /\ EarlyUnused /\ ClientUnused /\ RegistryUnused /\ CycleUnused
    /\ KeyUnused /\ ServiceInit

ServiceSpec == ServiceSpecInit /\ [][ServiceNext]_vars

\* ----------------------------------------------------------------------
\* Properties of Part 10
\* ----------------------------------------------------------------------

ServiceDone(op) == svc = "done" /\ svc_op = op

\* the metrics produced for queue n of the listing of cluster ci
ProducedFor(ci, n) ==
  {j \in 1..Len(metrics) : metrics[j].origin = <<ci, n>>}

\* the hosts the watch-list or the cluster assign to a discovered queue
AssignedHosts(ci, o) ==
  IF MatchingEntries(o.vhost, o.name) = {}
  THEN {svc_clusters[ci].default_zabbix_host}
  ELSE {GetOr(svc_queues[k].zabbix_host, svc_clusters[ci].default_zabbix_host) :
          k \in MatchingEntries(o.vhost, o.name)}

\* the data points of a batch that carry the values of metric j
PointsOfMetric(points, j) ==
  [k \in 1..3 |-> points[3 * (j - 1) + k]]

\* C25: in send_all_metrics_to_zabbix, every queue listed by a
\* monitoring-enabled cluster whose listing succeeded is collected once, under
\* the sink host of a watch-list entry matching its (vhost, queue) pair if
\* there is one and under the cluster's default sink host otherwise; a queue
\* left without a sink host, a cluster with monitoring disabled and a cluster
\* whose listing is an error contribute nothing; the batch holds three data
\* points per collected queue, under the queue's host, and nothing else.
C25_CollectAllSinkHost ==
  ServiceDone("send_all") =>
    /\ Len(listings) = Len(svc_clusters)
    /\ \A ci \in 1..Len(svc_clusters) :
         /\ (~svc_clusters[ci].enabled \/ listings[ci].error) =>
              \A j \in 1..Len(metrics) : metrics[j].origin[1] # ci
         /\ (svc_clusters[ci].enabled /\ ~listings[ci].error) =>
              \A n \in 1..Len(listings[ci].queues) :
                LET o == listings[ci].queues[n]
                IN  /\ Cardinality(ProducedFor(ci, n)) <= 1
                    /\ \A j \in ProducedFor(ci, n) :
                         /\ metrics[j].host \in AssignedHosts(ci, o)
                         /\ Truthy(metrics[j].host)
                         /\ metrics[j].queue_info.vhost = o.vhost
                         /\ metrics[j].queue_info.queue = o.name
                    /\ ProducedFor(ci, n) = {} =>
                         \E h \in AssignedHosts(ci, o) : ~Truthy(h)
                    /\ (\A h \in AssignedHosts(ci, o) : ~Truthy(h)) =>
                         ProducedFor(ci, n) = {}
    /\ Len(batches) = 1
    /\ Len(batches[1]) = 3 * Len(metrics)
    /\ \A j \in 1..Len(metrics) : \A k \in 1..3 :
         PointsOfMetric(batches[1], j)[k].host = metrics[j].host

\* C25 witness: a finished collect-all in which one queue went to the host of
\* its watch-list entry, another to the default host of its cluster, and a
\* cluster was passed over (disabled or listing in error).
C25_Witness ==
  /\ ServiceDone("send_all")
  /\ \E j, k \in 1..Len(metrics) :
       /\ metrics[j].host = "z2"
       /\ metrics[k].host = "z1"
  /\ \E ci \in 1..Len(svc_clusters) :
       ~svc_clusters[ci].enabled \/ listings[ci].error

RECURSIVE SplitOn(_, _)
\* str.split(sep) on a sequence of tokens
SplitOn(s, sep) ==
  IF \A k \in 1..Len(s) : s[k] # sep THEN <<s>>
  ELSE LET k == SetMin({x \in 1..Len(s) : s[x] = sep})
       IN  <<SubSeq(s, 1, k - 1)>> \o SplitOn(SubSeq(s, k + 1, Len(s)), sep)

\* the lines of a payload file, each ended by a newline
PayloadLines(file) ==
  LET pieces == SplitOn(file, "\n")
  IN  IF pieces[Len(pieces)] = <<>> THEN SubSeq(pieces, 1, Len(pieces) - 1)
      ELSE pieces

\* the file holds exactly the given points, one "host key value" line each
CarriesAll(file, points) ==
  /\ Len(PayloadLines(file)) = Len(points)
  /\ \A j \in 1..Len(points) :
       SplitOn(PayloadLines(file)[j], " ") =
         <<<<points[j].host>>, <<points[j].key>>, <<ToString(points[j].value)>>>>

ToolMissing == sink_result.note = "zabbix_sender not found"

\* C27 (as stated): a batch of N >= 1 data points runs the external tool
\* exactly once, with all N points as newline-delimited "host key value"
\* lines; a batch of no data points runs nothing and succeeds.
C27_BatchExactlyOneInvocation ==
  svc = "done" =>
    /\ Len(batches) = 1
    /\ batches[1] # <<>> =>
         /\ Len(tool_runs) = 1
         /\ CarriesAll(tool_runs[1], batches[1])
    /\ batches[1] = <<>> => (tool_runs = <<>> /\ sink_result.success)

\* C27 (amended): a batch of N >= 1 data points runs the external tool
\* exactly once, with all N points as newline-delimited "host key value"
\* lines, when the tool is found, and runs nothing and reports failure when
\* the tool is not found; a batch of no data points runs nothing and succeeds.
C27_BatchAtMostOneInvocation ==
  svc = "done" =>
    /\ Len(batches) = 1
    /\ (batches[1] # <<>> /\ ~ToolMissing) =>
         /\ Len(tool_runs) = 1
         /\ CarriesAll(tool_runs[1], batches[1])
    /\ (batches[1] # <<>> /\ ToolMissing) =>
         (tool_runs = <<>> /\ ~sink_result.success)
    /\ batches[1] = <<>> => (tool_runs = <<>> /\ sink_result.success)

\* C27 witness: a batch of six data points went out in one run of the tool.
C27_Witness ==
  /\ svc = "done"
  /\ Len(batches[1]) = 6
  /\ Len(tool_runs) = 1
  /\ Len(PayloadLines(tool_runs[1])) = 6

\* C28: at the end of run_monitoring_cycle every watch-list entry has been
\* handled; an entry that is incomplete, names a node of no cluster, or whose
\* lookup answered with an error is not collected; metrics_collected is the
\* number of entries not skipped; one batch was sent, holding the messages,
\* consumers and state data points of each collected queue under its host;
\* and the success flag is the one the sink reported.
C28_CycleSkipsAndReports ==
  ServiceDone("run_cycle") =>
    LET collected == {i \in 1..Len(svc_queues) : lookups[i] = "ok"}
    IN  /\ Len(lookups) = Len(svc_queues)
        /\ \A i \in 1..Len(svc_queues) :
             (\/ ~Complete(svc_queues[i])
              \/ ClustersOfNode(svc_queues[i]) = {}
              \/ lookups[i] = "error") <=> i \notin collected
        /\ svc_result.metrics_collected = Cardinality(collected)
        /\ Len(metrics) = Cardinality(collected)
        /\ Len(batches) = 1
        /\ Len(batches[1]) = 3 * Cardinality(collected)
        /\ \A j \in 1..Len(metrics) :
             LET prefix == "rabbitmq." \o metrics[j].queue_info.vhost \o "."
                             \o metrics[j].queue_info.queue \o "."
                 sent == PointsOfMetric(batches[1], j)
             IN  /\ \A k \in 1..3 : sent[k].host = metrics[j].host
                 /\ sent[1].key = prefix \o "queue.messages"
                 /\ sent[1].value = metrics[j].queue_info.messages
                 /\ sent[2].key = prefix \o "queue.consumers"
                 /\ sent[2].value = metrics[j].queue_info.consumers
                 /\ sent[3].key = prefix \o "queue.state"
                 /\ sent[3].value = StateValue(metrics[j].queue_info.state)
        /\ svc_result.success = sink_result.success

\* C28 witness: a cycle over two entries skipped one, collected the other,
\* and reports the failure of the sink.
C28_Witness ==
  /\ ServiceDone("run_cycle")
  /\ Len(svc_queues) = 2
  /\ Len(metrics) = 1
  /\ Len(batches[1]) = 3
  /\ ~sink_result.success
  /\ ~svc_result.success

\* ----------------------------------------------------------------------
\* Further properties of QueueMonitor (MonitorSpec)
\* ----------------------------------------------------------------------

\* C31: the alert rule is applied to every watch-list entry whose count was
\* read, whatever its cluster_node and zabbix_host are: when the entry has
\* been processed and the count is above the previous value, a drift alert
\* was dispatched unless the entry's key was latched.
C31_RuleAppliedToEveryReadEntry ==
  (Evaluated /\ Increased /\ ~was_latched) => DriftEmitted

CreateItemCalls == Cardinality({k \in 1..Len(steps) : steps[k] = "create_item"})

\* C32: create_item is called for a (host, key) only when the sink has no
\* such item, also when the existence check failed with an API error, and at
\* most once per queue per cycle.
C32_CreateOnlyWhenAbsent ==
  /\ mpc = "create_item" => ~zabbix_items[CurrentItem].exists
  /\ CreateItemCalls <= 1

\* the entry is written to the sink under the name of its own node
OwnHost(e) == e.zabbix_host = e.cluster_node

\* C33: processing one watch-list entry never adds or removes the latch of
\* an entry that differs from it in cluster node, vhost or queue (checked
\* for entries whose sink host is their cluster node, so that the key is
\* built from node, vhost and queue).
C33_LatchOfOtherQueueUntouched ==
  [][(mpc = "evaluate" /\ mpc' = "loop" /\ OwnHost(queues[qi])) =>
       \A j \in 1..Len(queues) :
         (OwnHost(queues[j]) /\ EntryId(queues[j]) # EntryId(queues[qi])) =>
           ((AlertKeyOf(queues[j]) \in sent_alerts') <=>
            (AlertKeyOf(queues[j]) \in sent_alerts))]_vars

\* C34: the key is in sent_alerts as soon as the drift alert has been handed
\* to the EmailSender, delivered or not; and no drift alert is dispatched for
\* an entry whose last alert was not delivered before a cycle with current
\* <= previous has cleared it.
C34_UndeliveredAlertStaysLatched ==
  Evaluated =>
    /\ DriftEmitted => AlertKeyOf(queues[qi]) \in sent_alerts
    /\ ~resent

\* C35: an entry whose count could not be read (no client for the node, or
\* the lookup failed) is passed over: the loop goes on to the next entry, no
\* item is created, no value is sent, no alert is handed over and
\* sent_alerts is unchanged.
C35_UnreadQueueSkipped ==
  [][(qi' = qi + 1 /\ IsNone(count')) =>
       /\ mpc' = "loop"
       /\ zabbix_items' = zabbix_items
       /\ sent_alerts' = sent_alerts
       /\ emitted' = <<>>
       /\ steps' = <<"check">>]_vars

\* C35 witness: the second entry of a cycle was passed over while the first
\* entry holds a value in the sink and a latched alert.
C35_Witness ==
  /\ mpc = "loop"
  /\ qi = 2
  /\ IsNone(count)
  /\ steps = <<"check">>
  /\ sent_alerts # {}
  /\ ~IsNone(zabbix_items[ItemOf(queues[1])].lastvalue)

\* ----------------------------------------------------------------------
\* The round-robin cursor of RabbitMQClient (Spec)
\* ----------------------------------------------------------------------
InRequest == pc \in {"preferred", "loop", "returned", "raised"}

\* the call was answered by its preferred node
PreferredAnswered ==
  /\ pc = "returned"
  /\ node # None
  /\ http = <<[node |-> node, ok |-> TRUE]>>

\* C36: the cursor lies in 0..N-1; during and after a request it is the
\* cursor at the start of the request advanced by the number of
\* _get_next_node calls of the request, modulo N; a request answered by its
\* preferred node leaves it where it was.
C36_CursorMovesOnlyBySelection ==
  /\ current_node_index \in 0..(Len(nodes) - 1)
  /\ InRequest => current_node_index = (cursor0 + selections) % Len(nodes)
  /\ PreferredAnswered => (selections = 0 /\ current_node_index = cursor0)

\* C36 witness: a request that began with the cursor off zero failed over to
\* a later selection and left the cursor wrapped around.
C36_Witness ==
  /\ pc = "returned"
  /\ Len(nodes) = 3
  /\ cursor0 = 2
  /\ selections = 2
  /\ current_node_index = 1

\* ======================================================================
\* Part 11: the composite queue key "cluster_id:vhost/queue".
\*          get_messages_ready_count keys its result by f"{vhost}/{queue}",
\*          the messages-ready endpoint prefixes f"{cluster_id}:", and
\*          update_queue_sizes takes the key apart again.  KeySpec.
\* ======================================================================

\* cluster ids, vhosts and queue names, as sequences of characters
KeyClusterIds == {<<"c", "1">>, <<"c", ":", "1">>, <<"p", "r", "o", "d">>}
KeyVhosts == VhostNames \cup {<<"a", ":", "b">>}
KeyQueues == QueueNameChoices \cup {<<"q", ":", "1">>}

KeyInit ==
  /\ key_pc = "named"
  /\ key_cluster \in KeyClusterIds
  /\ key_vhost \in KeyVhosts
  /\ key_queue \in KeyQueues
  /\ queue_key = <<>>
  /\ parsed = <<>>

exceptKey ==
  <<brokerVars, earlyVars, clientVars, registryVars, cycleVars, serviceVars>>

\* f"{cluster_id}:{k}" for each key k of get_messages_ready_count's result
PrefixedKey(cluster_id, k) == cluster_id \o <<":">> \o k

\* str.split(sep, 1)
SplitOnce(s, sep) ==
  LET at == {i \in 1..Len(s) : s[i] = sep}
  IN  IF at = {} THEN <<s>>
      ELSE <<SubSeq(s, 1, SetMin(at) - 1), SubSeq(s, SetMin(at) + 1, Len(s))>>

InvalidKey == [valid |-> FALSE, cluster_id |-> <<>>, vhost |-> <<>>, queue |-> <<>>]

\* update_queue_sizes: parts = queue_key.split(':', 1), then
\* vhost_queue.split('/', 1); a key without the separator is passed over
ParseQueueKey(k) ==
  LET parts == SplitOnce(k, ":")
  IN  IF Len(parts) # 2 THEN InvalidKey
      ELSE LET vhost_queue_parts == SplitOnce(parts[2], "/")
           IN  IF Len(vhost_queue_parts) # 2 THEN InvalidKey
               ELSE [valid |-> TRUE, cluster_id |-> parts[1],
                     vhost |-> vhost_queue_parts[1],
                     queue |-> vhost_queue_parts[2]]

\* the messages-ready listing reports the queue under its composite key
ListQueueKey ==
  /\ key_pc = "named"
  /\ queue_key' = PrefixedKey(key_cluster, QueueKey(key_vhost, key_queue))
  /\ key_pc' = "listed"
  /\ UNCHANGED <<key_cluster, key_vhost, key_queue, parsed>>
  /\ UNCHANGED exceptKey

\* update_queue_sizes takes the key of one listed queue apart
ParseListedKey ==
  /\ key_pc = "listed"
  /\ parsed' = ParseQueueKey(queue_key)
  /\ key_pc' = "parsed"
  /\ UNCHANGED <<key_cluster, key_vhost, key_queue, queue_key>>
  /\ UNCHANGED exceptKey

KeyNext ==
  \/ ListQueueKey
  \/ ParseListedKey

KeySpecInit ==
  BrokerUnused /\ EarlyUnused /\ ClientUnused /\ RegistryUnused /\ CycleUnused
    /\ ServiceUnused /\ KeyInit

KeySpec == KeySpecInit /\ [][KeyNext]_vars

\* C37: taking the composite key "cluster_id:vhost/queue" of a listed queue
\* apart as update_queue_sizes does gives back the cluster id, the vhost and
\* the queue name it was built from, also for the default vhost "/".
C37_KeySplitRecoversParts ==
  key_pc = "parsed" =>
    parsed = [valid |-> TRUE, cluster_id |-> key_cluster,
              vhost |-> key_vhost, queue |-> key_queue]

TypeOK ==
  /\ nodes \in NodeLists
  /\ current_node_index \in 0..(Len(nodes) - 1)
  /\ pc \in {"idle", "preferred", "loop", "returned", "raised"}
  /\ rule_pc = "unused"
====
